---------------------------- MODULE Spec2Model ----------------------------
(***************************************************************************)
(* State-machine model of the Tradium constant-product AMM                 *)
(* (src/tradium/src): initialize_pool, deposit, withdraw and swap, with    *)
(* the u64 / u128 / u8 arithmetic of the Rust code kept at its real width. *)
(*                                                                         *)
(* TLC's integers are 32-bit, so every u64 / u128 quantity of the program  *)
(* is an unbounded natural number written as a little-endian sequence of   *)
(* digits in base Base with no leading zero digit (zero is << >>).  Two    *)
(* such numbers are equal iff the sequences are equal.                     *)
(*                                                                         *)
(* A value computed once and used several times is passed on as the        *)
(* parameter of an operator (a LAMBDA where it reads best): Rust's         *)
(* `let v = e?; rest` is Try(e, LAMBDA v : rest).                          *)
(***************************************************************************)
EXTENDS Integers, Sequences, FiniteSets, TLC

(***************************************************************************)
(* Natural numbers of arbitrary size.                                      *)
(***************************************************************************)
Base == 2^15

RECURSIVE U(_)
U(n) == IF n = 0 THEN << >> ELSE << n % Base >> \o U(n \div Base)

RECURSIVE Norm(_)
Norm(s) ==
  IF s = << >> THEN s
  ELSE IF s[Len(s)] = 0 THEN Norm(SubSeq(s, 1, Len(s) - 1)) ELSE s

Digit(s, i) == IF i <= Len(s) THEN s[i] ELSE 0

\* the value of a number, when it fits TLC's integers
RECURSIVE ToNat(_)
ToNat(s) == IF s = << >> THEN 0 ELSE s[1] + Base * ToNat(Tail(s))

\* a number of at most two digits (below 2^30) is computed with as a TLC integer
Small(s) == Len(s) <= 2

\* the carry into digit i of a + b: some lower pair of digits overflows and
\* every pair between it and i is full
AddCarry(a, b, i) ==
  IF \E j \in 1..(i - 1) :
       /\ Digit(a, j) + Digit(b, j) >= Base
       /\ \A k \in (j + 1)..(i - 1) : Digit(a, k) + Digit(b, k) = Base - 1
  THEN 1 ELSE 0

\* the n digits of a + b, for a + b < Base^n
AddC(a, b, n) ==
  Norm(SubSeq([i \in 1..n |-> (Digit(a, i) + Digit(b, i) + AddCarry(a, b, i)) % Base], 1, n))

Add(a, b) ==
  IF Small(a) /\ Small(b) THEN U(ToNat(a) + ToNat(b))
  ELSE AddC(a, b, 1 + (IF Len(a) < Len(b) THEN Len(b) ELSE Len(a)))

\* the borrow from digit i of a - b: below i, a is less than b
SubBorrow(a, b, i) ==
  IF \E j \in 1..(i - 1) :
       /\ Digit(a, j) < Digit(b, j)
       /\ \A k \in (j + 1)..(i - 1) : Digit(a, k) = Digit(b, k)
  THEN 1 ELSE 0

\* the n digits of a - b, for b <= a < Base^n
SubC(a, b, n) ==
  Norm(SubSeq([i \in 1..n |-> (Base + Digit(a, i) - Digit(b, i) - SubBorrow(a, b, i)) % Base], 1, n))

\* a and b of the same length differ, and at the highest digit where they do
\* a has the smaller one
LtAt(a, b, n) ==
  \E i \in 1..n : a[i] < b[i] /\ \A k \in (i + 1)..n : a[k] = b[k]

Lt(a, b) == IF Len(a) # Len(b) THEN Len(a) < Len(b) ELSE LtAt(a, b, Len(a))
Le(a, b) == a = b \/ Lt(a, b)

\* a - b for b <= a
Sub(a, b) ==
  IF b = << >> THEN a
  ELSE IF Small(a) THEN U(ToNat(a) - ToNat(b)) ELSE SubC(a, b, Len(a))

\* a times the single digit d: each product of digits is a low and a high
\* digit, and the product is the sum of the lows and the highs one place up
MulDC(a, d, i) == IF i = 0 \/ i > Len(a) THEN 0 ELSE a[i] * d
MulD(a, d) ==
  IF d = 0 \/ a = << >> THEN << >>
  ELSE AddC([i \in 1..Len(a) |-> MulDC(a, d, i) % Base],
            [i \in 1..(Len(a) + 1) |-> MulDC(a, d, i - 1) \div Base],
            Len(a) + 1)

ShiftUp(x) == IF x = << >> THEN x ELSE << 0 >> \o x

RECURSIVE MulAt(_, _, _)
MulAt(a, b, i) ==
  IF i > Len(b) \/ a = << >> THEN << >>
  ELSE Add(MulD(a, b[i]), ShiftUp(MulAt(a, b, i + 1)))

Mul(a, b) ==
  IF Len(a) <= 1 /\ Len(b) <= 1 THEN U(Digit(a, 1) * Digit(b, 1))
  ELSE IF Len(a) < Len(b) THEN MulAt(b, a, 1) ELSE MulAt(a, b, 1)

\* the quotient digit of r by b, for r < b * Base and b either a single digit
\* or with a top digit of at least Base / 2: the top two digits of r over the
\* top digit of b are the digit or at most 2 above it
QTop(r, n) == IF Len(r) > n THEN r[n + 1] * Base + r[n] ELSE r[n]
QTrim(r, b, qh) ==
  qh - Cardinality({ k \in 0..2 : k < qh /\ ~Le(MulD(b, qh - k), r) })
QDigit(r, b) ==
  IF Len(r) < Len(b) THEN 0
  ELSE IF QTop(r, Len(b)) \div b[Len(b)] < Base
  THEN QTrim(r, b, QTop(r, Len(b)) \div b[Len(b)])
  ELSE QTrim(r, b, Base - 1)

\* long division of a by b over s = [i, q, r]: the digits a[1..i] are still
\* to bring down, q is the quotient and r the remainder of the digits above
\* them.  One step brings a[i] down into r1 and finds the quotient digit d.
DivDigit(s, r1, d, b) ==
  [i |-> s.i - 1, q |-> << d >> \o s.q, r |-> Sub(r1, MulD(b, d))]
DivDown(s, r1, b) == DivDigit(s, r1, QDigit(r1, b), b)
DivStep(a, b, s) ==
  IF s.i = 0 THEN s ELSE DivDown(s, Norm(<< a[s.i] >> \o s.r), b)
DivStep4(a, b, s) == DivStep(a, b, DivStep(a, b, DivStep(a, b, DivStep(a, b, s))))

RECURSIVE DivAt(_, _, _)
DivAt(a, b, s) == IF s.i = 0 THEN s ELSE DivAt(a, b, DivStep4(a, b, s))

\* a and b are scaled by f so that the top digit of f * b is at least
\* Base / 2: the quotient is the same and the remainder is f times as large
DivNormalizer(b) == IF Len(b) = 1 THEN 1 ELSE Base \div (b[Len(b)] + 1)
DivScaled(a, b) ==
  IF Len(a) < Len(b) THEN [i |-> 0, q |-> << >>, r |-> a]
  ELSE DivAt(a, b, [i |-> Len(a), q |-> << >>, r |-> << >>])

\* floor(a / b) and a mod b, for b # 0
Div(a, b) ==
  IF Small(a) /\ Small(b) THEN U(ToNat(a) \div ToNat(b))
  ELSE IF Lt(a, b) THEN << >>
  ELSE Norm(DivScaled(MulD(a, DivNormalizer(b)), MulD(b, DivNormalizer(b))).q)
Mod(a, b) ==
  IF Small(a) /\ Small(b) THEN U(ToNat(a) % ToNat(b))
  ELSE IF Lt(a, b) THEN a
  ELSE Div(DivScaled(MulD(a, DivNormalizer(b)), MulD(b, DivNormalizer(b))).r,
           << DivNormalizer(b) >>)

\* b^e by repeated squaring
RECURSIVE Pow(_, _)
PowSq(h, b, e) == IF e % 2 = 1 THEN Mul(Mul(h, h), b) ELSE Mul(h, h)
Pow(b, e) == IF e = 0 THEN U(1) ELSE PowSq(Pow(b, e \div 2), b, e)

Min(a, b) == IF Le(a, b) THEN a ELSE b

(***************************************************************************)
(* Rust integer primitives.  Option / Result values are records:           *)
(* Ok(v) carries a value, Err(e) an error name ("panic" is an abort of the *)
(* program: a panic of the Rust runtime).                                  *)
(***************************************************************************)
Ok(v)  == [ok |-> TRUE,  v |-> v,     err |-> "Ok"]
Err(e) == [ok |-> FALSE, v |-> << >>, err |-> e]

\* `let v = r.ok_or(TradiumError::MathOverflow)?; K(v)`
Try(r, K(_)) == IF r.ok THEN K(r.v) ELSE Err("MathOverflow")

\* `let v = r?; K(v)`: the error of r is returned as it is
Then(r, K(_)) == IF r.ok THEN K(r.v) ELSE r

\* 2^32, 2^64 and 2^128 in digits of base 2^15 (32 = 2 * 15 + 2,
\* 64 = 4 * 15 + 4, 128 = 8 * 15 + 8), and the largest u64 and u128
U8_MAX   == 255
TWO_32   == << 0, 0, 4 >>
TWO_64   == << 0, 0, 0, 0, 16 >>
TWO_128  == << 0, 0, 0, 0, 0, 0, 0, 0, 256 >>
U64_MAX  == << 32767, 32767, 32767, 32767, 15 >>
U128_MAX == << 32767, 32767, 32767, 32767, 32767, 32767, 32767, 32767, 255 >>

\* a value if it fits the type whose largest value is max
Fits(s, max) == IF Le(s, max) THEN Ok(s) ELSE Err("None")

\* u64::checked_add, checked_sub, checked_mul, checked_div
checked_add(a, b) == Fits(Add(a, b), U64_MAX)
checked_sub(a, b) == IF Le(b, a) THEN Ok(Sub(a, b)) ELSE Err("None")
checked_mul(a, b) == Fits(Mul(a, b), U64_MAX)
checked_div(a, b) == IF b = U(0) THEN Err("None") ELSE Ok(Div(a, b))

\* u128::checked_mul, checked_div
checked_mul_u128(a, b) == Fits(Mul(a, b), U128_MAX)
checked_div_u128(a, b) == IF b = U(0) THEN Err("None") ELSE Ok(Div(a, b))

\* `x as u64` of a u128, `x as u32` of a u64: the low bits
as_u64(x) == Mod(x, TWO_64)
as_u32(x) == Mod(x, TWO_32)

\* u8::checked_add on the one-byte nonce
checked_add_u8(a, b) == IF a + b <= U8_MAX THEN Ok(a + b) ELSE Err("None")

(***************************************************************************)
(* deposit.rs: the share arithmetic.                                       *)
(***************************************************************************)
\* 10_u64.pow(e): the set of outcomes the build can produce.  Below 10^20
\* the power is exact.  From 10^20 on it overflows u64: a build with overflow
\* checks panics, a build without them wraps (the power modulo 2^64, which is
\* 0 from e = 64 on).
pow10_u64(e) ==
  IF Lt(e, U(20)) THEN { Ok(Pow(U(10), ToNat(e))) }
  ELSE { Err("panic"),
         Ok(IF Lt(e, U(64)) THEN Mod(Pow(U(10), ToNat(e)), TWO_64) ELSE U(0)) }

normalize_amount(amount, token_decimals, sys_decimals) ==
  IF Le(token_decimals, sys_decimals)
  THEN { Then(f, LAMBDA v : Try(checked_mul(amount, v), LAMBDA m : Ok(m)))
         : f \in pow10_u64(as_u32(Sub(sys_decimals, token_decimals))) }
  ELSE { Then(f, LAMBDA v : Try(checked_div(amount, v), LAMBDA d : Ok(d)))
         : f \in pow10_u64(as_u32(Sub(token_decimals, sys_decimals))) }

\* one pass of the loop `while y < x { x = y; y = (x + n / x) / 2; }` over
\* s = [x, y, panic]: nothing once y >= x; the division n / x panics for x = 0
integer_sqrt_pass(n, s) ==
  IF s.panic THEN s
  ELSE IF ~Lt(s.y, s.x) THEN s
  ELSE IF s.y = U(0) THEN [s EXCEPT !.panic = TRUE]
  ELSE [x |-> s.y, y |-> Div(Add(s.y, Div(n, s.y)), U(2)), panic |-> FALSE]

\* at most c passes of the loop, each from where the one before got to
RECURSIVE integer_sqrt_run(_, _, _)
integer_sqrt_run(n, s, c) ==
  IF c = 0 \/ s.panic THEN s
  ELSE integer_sqrt_run(n, integer_sqrt_pass(n, s), c - 1)

\* integer_sqrt_passes returning the last estimate y in place of x
RECURSIVE integer_sqrt_passes_y(_, _)
integer_sqrt_passes_y(n, s) ==
  IF s.panic THEN Err("panic")
  ELSE IF ~Lt(s.y, s.x) THEN Ok(s.y)
  ELSE integer_sqrt_passes_y(n, integer_sqrt_run(n, s, 8))

\* the loop run to its end, eight passes at a time
RECURSIVE integer_sqrt_passes(_, _)
integer_sqrt_passes(n, s) ==
  IF s.panic THEN Err("panic")
  ELSE IF ~Lt(s.y, s.x) THEN Ok(s.x)
  ELSE integer_sqrt_passes(n, integer_sqrt_run(n, s, 8))

\* integer_sqrt_loop returning the last estimate y in place of x
integer_sqrt_loop_y(n, x, y) ==
  integer_sqrt_passes_y(n, [x |-> x, y |-> y, panic |-> FALSE])

\* the loop `while y < x { x = y; y = (x + n / x) / 2; }` from x and y
integer_sqrt_loop(n, x, y) ==
  integer_sqrt_passes(n, [x |-> x, y |-> y, panic |-> FALSE])

\* integer_sqrt(n: u64).  `x + 1` overflows for n = u64::MAX only: the build
\* panics there, or wraps to y = 0 and then panics dividing by x = 0.
integer_sqrt(n) ==
  IF n = U(0) THEN Ok(U(0))
  ELSE IF n = U64_MAX THEN Err("panic")
  ELSE integer_sqrt_loop(n, n, Div(Add(n, U(1)), U(2)))

\* calculate_share rounding the quotient up
calculate_share_rounded_up(amount, balance_before, total_lp_supply) ==
  IF Lt(U(0), balance_before) /\ Lt(U(0), amount)
  THEN Try(checked_mul(amount, total_lp_supply), LAMBDA m :
       Try(checked_div(Add(m, Sub(balance_before, U(1))), balance_before),
           LAMBDA d : Ok(d)))
  ELSE Ok(U(0))

\* the proportional share of one side: amount * supply / balance in u64
calculate_share(amount, balance_before, total_lp_supply) ==
  IF Lt(U(0), balance_before) /\ Lt(U(0), amount)
  THEN Try(checked_mul(amount, total_lp_supply), LAMBDA m :
       Try(checked_div(m, balance_before), LAMBDA d : Ok(d)))
  ELSE Ok(U(0))

\* the genesis shares: the square root of the product of the two amounts,
\* each normalized; one outcome for each pair of outcomes of normalize_amount
genesis_lp_tokens(p, amount_coin, amount_pc) ==
  { Then(c, LAMBDA coin_amount_normalized :
    Then(q, LAMBDA pc_amount_normalized :
    Try(checked_mul(coin_amount_normalized, pc_amount_normalized), LAMBDA m :
      integer_sqrt(m))))
    : c \in normalize_amount(amount_coin, p.coin_decimals, p.sys_decimal_value),
      q \in normalize_amount(amount_pc, p.pc_decimals, p.sys_decimal_value) }

\* calculate_lp_tokens taking the larger of the two shares in place of the
\* smaller
calculate_lp_tokens_max(p, amount_coin, amount_pc, coin_vault_balance_before, pc_vault_balance_before, total_lp_supply) ==
  IF total_lp_supply = U(0)
  THEN genesis_lp_tokens(p, amount_coin, amount_pc)
  ELSE { Then(calculate_share(amount_coin, coin_vault_balance_before,
                              total_lp_supply), LAMBDA coin_share :
         Then(calculate_share(amount_pc, pc_vault_balance_before,
                              total_lp_supply), LAMBDA pc_share :
           Ok(IF Le(coin_share, pc_share) THEN pc_share ELSE coin_share))) }

\* calculate_lp_tokens: the set of outcomes (one, unless a power of ten
\* overflows)
calculate_lp_tokens(p, amount_coin, amount_pc, coin_vault_balance_before, pc_vault_balance_before, total_lp_supply) ==
  IF total_lp_supply = U(0)
  THEN genesis_lp_tokens(p, amount_coin, amount_pc)
  ELSE { Then(calculate_share(amount_coin, coin_vault_balance_before,
                              total_lp_supply), LAMBDA coin_share :
         Then(calculate_share(amount_pc, pc_vault_balance_before,
                              total_lp_supply), LAMBDA pc_share :
           Ok(Min(coin_share, pc_share)))) }

(***************************************************************************)
(* Identities and constants (constants.rs, state/tradium.rs).              *)
(***************************************************************************)
SPL_TOKEN_PROGRAM_ID      == "spl_token"
SPL_TOKEN_2022_PROGRAM_ID == "spl_token_2022"
OTHER_ID                  == "other"
DEFAULT_PUBKEY            == "11111111"
NONE                      == "None"
HOOK_PROGRAM              == "hook_program"

MAX_WHITELISTED_HOOKS == 10
FEE_DENOMINATOR       == 10000
DEFAULT_TRADE_FEE     == 30
DEFAULT_OWNER_FEE     == 5

\* the bounds of the model
NonceRoom == 2      \* a pool is created with bump 255 - NonceRoom or 255
UserCoin0 == 4      \* the user's coin balance before the pool exists
UserPc0   == 4      \* the user's pc balance before the pool exists
MaxAmount == 3      \* amounts offered to deposit, withdraw and swap: 0..MaxAmount
MaxMinOut == 1      \* minimum_amount_out offered to swap: 0..MaxMinOut

Amounts == { U(n) : n \in 0..MaxAmount }
MinOuts == { U(n) : n \in 0..MaxMinOut }
Bumps   == { U8_MAX - NonceRoom, U8_MAX }

VARIABLES
  pool,    \* the Tradium account (state/tradium.rs), `created` once init ran
  tok,     \* the token ledger: both vaults, the LP supply, the user's balances
  mints,   \* the coin and pc mint accounts: owner program, transfer hook, decimals
  last,    \* the last instruction: name, result, state before it, what it did
  hist     \* history: successful deposits/withdraws/swaps, nonce right after init

vars == << pool, tok, mints, last, hist >>

\* Tradium::default(), for an account that does not exist yet
DefaultPool ==
  [ created |-> FALSE, status |-> 0, nonce |-> 0,
    coin_decimals |-> U(0), pc_decimals |-> U(0), sys_decimal_value |-> U(0),
    fees |-> [ trade_fee_numerator |-> U(0), trade_fee_denominator |-> U(0),
               swap_fee_numerator |-> U(0), swap_fee_denominator |-> U(0) ],
    initialized |-> FALSE,
    coin_vault |-> DEFAULT_PUBKEY, pc_vault |-> DEFAULT_PUBKEY,
    coin_vault_mint |-> DEFAULT_PUBKEY, pc_vault_mint |-> DEFAULT_PUBKEY,
    lp_mint |-> DEFAULT_PUBKEY,
    coin_token_program |-> DEFAULT_PUBKEY, pc_token_program |-> DEFAULT_PUBKEY,
    whitelisted_transfer_hooks |-> [i \in 1..MAX_WHITELISTED_HOOKS |-> DEFAULT_PUBKEY],
    num_whitelisted_hooks |-> 0,
    lp_amount |-> U(0) ]

\* a mint account: the token program owning it, the program its TransferHook
\* extension declares (NONE without the extension), its decimals
Mint(owner, hook, decimals) ==
  [owner |-> owner, hook |-> hook, decimals |-> decimals]

\* the pairs of mints a pool is created over
MintWorlds ==
  { [coin |-> Mint(SPL_TOKEN_PROGRAM_ID, NONE, 0),
     pc   |-> Mint(SPL_TOKEN_PROGRAM_ID, NONE, 0)],
    [coin |-> Mint(SPL_TOKEN_2022_PROGRAM_ID, HOOK_PROGRAM, 0),
     pc   |-> Mint(SPL_TOKEN_2022_PROGRAM_ID, NONE, 0)] }

NoArgs ==
  [a |-> U(0), b |-> U(0), dir |-> 0, coin_hook |-> NONE, pc_hook |-> NONE,
   coin_token_program |-> NONE, pc_token_program |-> NONE]

\* the arguments of an instruction and the hook accounts `k` passed with it
Args(a, b, dir, k) ==
  [NoArgs EXCEPT !.a = a, !.b = b, !.dir = dir,
                 !.coin_hook = k.coin_hook, !.pc_hook = k.pc_hook]

\* what is kept of the arguments of a failed instruction: the hook accounts
\* and the token program accounts
FailedArgs(args) == [args EXCEPT !.a = U(0), !.b = U(0), !.dir = 0]
NoOut  == [lp |-> U(0), coin |-> U(0), pc |-> U(0)]

Snapshot == [pool |-> pool, tok |-> tok]

(***************************************************************************)
(* The token programs, as the handlers use them through CPI.               *)
(***************************************************************************)
\* token_transfer crediting the receiving account with half the amount
token_transfer_half_credited(t, from, to, amount) ==
  IF Lt(t[from], amount) THEN Err("TokenInsufficientFunds")
  ELSE IF ~Le(Add(t[to], amount), U64_MAX) THEN Err("TokenOverflow")
  ELSE Ok([t EXCEPT ![from] = Sub(@, amount),
                    ![to] = Add(@, Div(amount, U(2)))])

\* token_interface::transfer: `amount` from account `from` to account `to`
token_transfer(t, from, to, amount) ==
  IF Lt(t[from], amount) THEN Err("TokenInsufficientFunds")
  ELSE IF ~Le(Add(t[to], amount), U64_MAX) THEN Err("TokenOverflow")
  ELSE Ok([t EXCEPT ![from] = Sub(@, amount), ![to] = Add(@, amount)])

\* token::mint_to: `amount` new LP shares to the user
token_mint_to(t, amount) ==
  IF ~Le(Add(t.lp_supply, amount), U64_MAX) THEN Err("TokenOverflow")
  ELSE Ok([t EXCEPT !.lp_supply = Add(@, amount), !.user_lp = Add(@, amount)])

\* token_burn debiting the user's account and leaving the supply as it was
token_burn_user_only(t, amount) ==
  IF Lt(t.user_lp, amount) THEN Err("TokenInsufficientFunds")
  ELSE Ok([t EXCEPT !.user_lp = Sub(@, amount)])

\* token::burn: `amount` LP shares of the user
token_burn(t, amount) ==
  IF Lt(t.user_lp, amount) THEN Err("TokenInsufficientFunds")
  ELSE Ok([t EXCEPT !.lp_supply = Sub(@, amount), !.user_lp = Sub(@, amount)])

\* one dispatched CPI, as it appears in the order of a transition
Cpi(what, from, to, amount, seeds) ==
  [cpi |-> what, from |-> from, to |-> to, amount |-> amount, seeds |-> seeds]

\* does the mint carry a TransferHook extension of the extended program?
HasTransferHook(mint) ==
  mint.owner = SPL_TOKEN_2022_PROGRAM_ID /\ mint.hook # NONE

\* shared.rs transfer_tokens_with_hook_support (and withdraw's inlined copies):
\* a hook-bearing mint needs the hook program account, then the transfer
transfer_tokens_with_hook_support(t, log, mint, transfer_hook_program, from, to, amount, seeds, missing) ==
  IF HasTransferHook(mint) /\ transfer_hook_program = NONE
  THEN Err(missing)
  ELSE Then(token_transfer(t, from, to, amount), LAMBDA v :
         Ok([tok |-> v,
             log |-> Append(log, Cpi("transfer", from, to, amount, seeds))]))

(***************************************************************************)
(* The hook gate: the constraint on the optional accounts                  *)
(* coin_transfer_hook_program and pc_transfer_hook_program.  Anchor checks *)
(* the constraints of an Option<..> account only when the account is       *)
(* present; an absent one reaches the handler unchecked.                   *)
(***************************************************************************)
\* the scan running over the whole array, whatever num_whitelisted says
whitelisted_anywhere(whitelisted_hooks, num_whitelisted, hook_program_id) ==
  \E i \in 1..MAX_WHITELISTED_HOOKS : whitelisted_hooks[i] = hook_program_id

\* the scan `for i in 0..num_whitelisted` of the first num_whitelisted entries
whitelisted(whitelisted_hooks, num_whitelisted, hook_program_id) ==
  \E i \in 1..num_whitelisted : whitelisted_hooks[i] = hook_program_id

\* the gate letting any hook program account through for a mint that has no
\* TransferHook extension
validate_transfer_hook_program_lenient(mint, transfer_hook_program, whitelisted_hooks, num_whitelisted) ==
  IF mint.owner = SPL_TOKEN_2022_PROGRAM_ID /\ mint.hook # NONE
  THEN /\ transfer_hook_program = mint.hook
       /\ whitelisted(whitelisted_hooks, num_whitelisted, mint.hook)
  ELSE TRUE

\* shared.rs 71-118 (withdraw.rs 265-312 is the same text): does the gate admit
\* the hook program account that was passed for this mint?  A TransferHook
\* extension that names no program has hook = DEFAULT_PUBKEY.
validate_transfer_hook_program(mint, transfer_hook_program, whitelisted_hooks, num_whitelisted) ==
  IF mint.owner = SPL_TOKEN_2022_PROGRAM_ID
  THEN IF mint.hook # NONE
       THEN IF mint.hook = DEFAULT_PUBKEY THEN FALSE
            ELSE IF transfer_hook_program # mint.hook THEN FALSE
            ELSE whitelisted(whitelisted_hooks, num_whitelisted, mint.hook)
       ELSE FALSE
  ELSE FALSE

\* swap.rs 147-194: swap's own gate, over the optional account
swap_validate_transfer_hook_program(mint, transfer_hook_program, whitelisted_hooks, num_whitelisted) ==
  IF mint.owner = SPL_TOKEN_2022_PROGRAM_ID
  THEN IF mint.hook # NONE
       THEN IF transfer_hook_program # NONE
            THEN IF mint.hook = DEFAULT_PUBKEY THEN FALSE
                 ELSE IF transfer_hook_program # mint.hook THEN FALSE
                 ELSE whitelisted(whitelisted_hooks, num_whitelisted, mint.hook)
            ELSE FALSE
       ELSE transfer_hook_program = NONE
  ELSE transfer_hook_program = NONE

\* deposit.rs 44-64, withdraw.rs 91-112: the constraint of one optional hook
\* account, checked when the account is present
hook_constraint(p, mint, transfer_hook_program) ==
  \/ transfer_hook_program = NONE
  \/ validate_transfer_hook_program(mint, transfer_hook_program,
       p.whitelisted_transfer_hooks, p.num_whitelisted_hooks)

\* swap.rs 59-79: the same for swap
swap_hook_constraint(p, mint, transfer_hook_program) ==
  \/ transfer_hook_program = NONE
  \/ swap_validate_transfer_hook_program(mint, transfer_hook_program,
       p.whitelisted_transfer_hooks, p.num_whitelisted_hooks)

(***************************************************************************)
(* The instruction handlers.  Each returns what it did: `res` is "Ok" or   *)
(* the error it returned, `pool` and `tok` the accounts as the handler     *)
(* left them (on an error: at the point it returned), `log` the CPIs it    *)
(* dispatched, in order.                                                   *)
(***************************************************************************)
Ret(res, p, t, out, log) ==
  [res |-> res, pool |-> p, tok |-> t, out |-> out, log |-> log]

\* deposit.rs 173-191: pool.lp_amount and pool.nonce, given the two sums
deposit_update(p, t, log, lp_amount, la, n) ==
  IF ~la.ok THEN Ret("MathOverflow", p, t, NoOut, log)
  ELSE IF ~n.ok
  THEN Ret("MathOverflow", [p EXCEPT !.lp_amount = la.v], t, NoOut, log)
  ELSE Ret("Ok", [p EXCEPT !.lp_amount = la.v, !.nonce = n.v], t,
           [lp |-> lp_amount, coin |-> U(0), pc |-> U(0)], log)

\* deposit.rs 160-182: m is the outcome of token::mint_to
deposit_minted(p, t, log, lp_amount, m) ==
  IF ~m.ok THEN Ret(m.err, p, t, NoOut, log)
  ELSE deposit_update(p, m.v, log, lp_amount,
                      checked_add(p.lp_amount, lp_amount),
                      checked_add_u8(p.nonce, 1))

\* deposit.rs 141-191: lp is the outcome of calculate_lp_tokens, t and log the
\* ledger and the CPIs after the ingress
deposit_mint(p, t, log, lp) ==
  IF ~lp.ok THEN Ret(lp.err, p, t, NoOut, log)
  ELSE IF ~Lt(U(0), lp.v)
  THEN Ret("InsufficientLiquidityMinted", p, t, NoOut, log)
  ELSE deposit_minted(p, t,
         Append(log, Cpi("mint_to", "lp_mint", "user_lp", lp.v,
                         << "mint_authority", "pool", p.nonce >>)),
         lp.v, token_mint_to(t, lp.v))

\* deposit.rs 127-149: x2 is the outcome of the pc ingress, v1 the ledger and
\* log after the coin ingress, t the ledger before both
deposit_shares(p, t, a, v1, x2) ==
  LET coin_vault_balance_before == t.coin_vault
      pc_vault_balance_before   == t.pc_vault
      total_lp_supply           == t.lp_supply
  IN  IF ~x2.ok THEN { Ret(x2.err, p, v1.tok, NoOut, v1.log) }
      ELSE { deposit_mint(p, x2.v.tok, x2.v.log, lp) :
             lp \in calculate_lp_tokens(p, a.amount_coin, a.amount_pc,
                      coin_vault_balance_before, pc_vault_balance_before,
                      total_lp_supply) }

\* deposit.rs 113-139: x1 is the outcome of the coin ingress
deposit_pc(p, t, m, a, x1) ==
  IF ~x1.ok THEN { Ret(x1.err, p, t, NoOut, << >>) }
  ELSE deposit_shares(p, t, a, x1.v,
         IF Lt(U(0), a.amount_pc)
         THEN transfer_tokens_with_hook_support(x1.v.tok, x1.v.log, m.pc,
                a.pc_hook, "user_pc", "pc_vault", a.amount_pc, << >>,
                "InvalidTransferHookProgram")
         ELSE x1)

\* deposit.rs 67-192.  `a` holds the amounts and the account keys supplied.
deposit(p, t, m, a) ==
  IF ~(Lt(U(0), a.amount_coin) \/ Lt(U(0), a.amount_pc))
  THEN { Ret("InvalidDepositAmount", p, t, NoOut, << >>) }
  ELSE IF a.coin_token_program # p.coin_token_program
  THEN { Ret("InvalidCoinTokenProgram", p, t, NoOut, << >>) }
  ELSE IF a.pc_token_program # p.pc_token_program
  THEN { Ret("InvalidPcTokenProgram", p, t, NoOut, << >>) }
  ELSE IF a.coin_vault # p.coin_vault
  THEN { Ret("InvalidCoinVault", p, t, NoOut, << >>) }
  ELSE IF a.pc_vault # p.pc_vault
  THEN { Ret("InvalidPcVault", p, t, NoOut, << >>) }
  ELSE IF a.lp_mint # p.lp_mint
  THEN { Ret("InvalidLpMint", p, t, NoOut, << >>) }
  ELSE IF a.coin_mint # p.coin_vault_mint
  THEN { Ret("InvalidCoinMint", p, t, NoOut, << >>) }
  ELSE IF a.pc_mint # p.pc_vault_mint
  THEN { Ret("InvalidPcMint", p, t, NoOut, << >>) }
  ELSE deposit_pc(p, t, m, a,
         IF Lt(U(0), a.amount_coin)
         THEN transfer_tokens_with_hook_support(t, << >>, m.coin,
                a.coin_hook, "user_coin", "coin_vault", a.amount_coin,
                << >>, "InvalidTransferHookProgram")
         ELSE Ok([tok |-> t, log |-> << >>]))

\* withdraw_share dividing by the shares redeemed in place of the supply
withdraw_share_by_amount(vault_balance, lp_amount, total_lp_supply) ==
  Try(checked_mul_u128(vault_balance, lp_amount), LAMBDA m :
  Try(checked_div_u128(m, lp_amount), LAMBDA d : Ok(as_u64(d))))

\* withdraw_share rounding the quotient up
withdraw_share_rounded_up(vault_balance, lp_amount, total_lp_supply) ==
  Try(checked_mul_u128(vault_balance, lp_amount), LAMBDA m :
  Try(checked_div_u128(Add(m, Sub(total_lp_supply, U(1))), total_lp_supply),
      LAMBDA d : Ok(as_u64(d))))

\* withdraw.rs 142-153: floor(balance * lp_amount / supply) in u128, `as u64`
withdraw_share(vault_balance, lp_amount, total_lp_supply) ==
  Try(checked_mul_u128(vault_balance, lp_amount), LAMBDA m :
  Try(checked_div_u128(m, total_lp_supply), LAMBDA d : Ok(as_u64(d))))

\* withdraw_pc of a withdraw that dispatches the burn after the two egresses
withdraw_pc_burning_last(p, a, coin_amount, pc_amount, v1, x2) ==
  IF ~x2.ok THEN Ret(x2.err, p, v1.tok, NoOut, v1.log)
  ELSE Ret("Ok", p, x2.v.tok,
           [lp |-> a.lp_amount, coin |-> coin_amount, pc |-> pc_amount],
           Append(Tail(x2.v.log), Head(x2.v.log)))

\* withdraw.rs 205-253: the pc egress x2, after the coin egress left v1
withdraw_pc(p, a, coin_amount, pc_amount, v1, x2) ==
  IF ~x2.ok THEN Ret(x2.err, p, v1.tok, NoOut, v1.log)
  ELSE Ret("Ok", p, x2.v.tok,
           [lp |-> a.lp_amount, coin |-> coin_amount, pc |-> pc_amount],
           x2.v.log)

\* withdraw.rs 170-253: the coin egress x1, after the burn left ledger t1
withdraw_coin(p, m, a, coin_amount, pc_amount, cpi_seeds, t1, l1, x1) ==
  IF ~x1.ok THEN Ret(x1.err, p, t1, NoOut, l1)
  ELSE withdraw_pc(p, a, coin_amount, pc_amount, x1.v,
         transfer_tokens_with_hook_support(x1.v.tok, x1.v.log, m.pc,
           a.pc_hook, "pc_vault", "user_pc", pc_amount, cpi_seeds,
           "InvalidTransferHookProgram"))

\* withdraw.rs 159-253: b is the outcome of token::burn
withdraw_burned(p, t, m, a, coin_amount, pc_amount, cpi_seeds, l1, b) ==
  IF ~b.ok THEN Ret(b.err, p, t, NoOut, l1)
  ELSE withdraw_coin(p, m, a, coin_amount, pc_amount, cpi_seeds, b.v, l1,
         transfer_tokens_with_hook_support(b.v, l1, m.coin, a.coin_hook,
           "coin_vault", "user_coin", coin_amount, cpi_seeds,
           "InvalidTransferHookProgram"))

\* withdraw.rs 142-253: the two amounts owed, then burn and egress
withdraw_amounts(p, t, m, a, coin_amount, pc_amount) ==
  IF ~coin_amount.ok THEN Ret(coin_amount.err, p, t, NoOut, << >>)
  ELSE IF ~pc_amount.ok THEN Ret(pc_amount.err, p, t, NoOut, << >>)
  ELSE IF ~Lt(U(0), coin_amount.v)
  THEN Ret("InsufficientWithdrawal", p, t, NoOut, << >>)
  ELSE IF ~Lt(U(0), pc_amount.v)
  THEN Ret("InsufficientWithdrawal", p, t, NoOut, << >>)
  ELSE withdraw_burned(p, t, m, a, coin_amount.v, pc_amount.v,
         << "tradium", p.coin_vault_mint, p.pc_vault_mint, p.nonce >>,
         << Cpi("burn", "user_lp", "lp_mint", a.lp_amount, << >>) >>,
         token_burn(t, a.lp_amount))

\* withdraw looking at the share supply before it looks at the user's balance
withdraw_supply_first(p, t, m, a) ==
  IF ~Lt(U(0), a.lp_amount) THEN Ret("InvalidAmount", p, t, NoOut, << >>)
  ELSE IF ~Lt(U(0), t.lp_supply) THEN Ret("EmptyPool", p, t, NoOut, << >>)
  ELSE IF Lt(t.user_lp, a.lp_amount)
  THEN Ret("InsufficientBalance", p, t, NoOut, << >>)
  ELSE IF a.coin_token_program # p.coin_token_program
  THEN Ret("InvalidCoinTokenProgram", p, t, NoOut, << >>)
  ELSE IF a.pc_token_program # p.pc_token_program
  THEN Ret("InvalidPcTokenProgram", p, t, NoOut, << >>)
  ELSE withdraw_amounts(p, t, m, a,
         withdraw_share(t.coin_vault, a.lp_amount, t.lp_supply),
         withdraw_share(t.pc_vault, a.lp_amount, t.lp_supply))

\* withdraw.rs 115-263.  `a`: lp_amount, the token programs and hooks supplied.
withdraw(p, t, m, a) ==
  LET coin_vault_balance == t.coin_vault
      pc_vault_balance   == t.pc_vault
      total_lp_supply    == t.lp_supply
  IN
  IF ~Lt(U(0), a.lp_amount) THEN Ret("InvalidAmount", p, t, NoOut, << >>)
  ELSE IF Lt(t.user_lp, a.lp_amount)
  THEN Ret("InsufficientBalance", p, t, NoOut, << >>)
  ELSE IF a.coin_token_program # p.coin_token_program
  THEN Ret("InvalidCoinTokenProgram", p, t, NoOut, << >>)
  ELSE IF a.pc_token_program # p.pc_token_program
  THEN Ret("InvalidPcTokenProgram", p, t, NoOut, << >>)
  ELSE IF ~Lt(U(0), total_lp_supply) THEN Ret("EmptyPool", p, t, NoOut, << >>)
  ELSE withdraw_amounts(p, t, m, a,
         withdraw_share(coin_vault_balance, a.lp_amount, total_lp_supply),
         withdraw_share(pc_vault_balance, a.lp_amount, total_lp_supply))

\* swap_coin_to_pc pricing against the coin balance before the input is added
swap_coin_to_pc_old_balance(amount_in, coin_balance, pc_balance, p) ==
  Try(checked_sub(p.fees.swap_fee_denominator, p.fees.swap_fee_numerator),
      LAMBDA k :
  Try(checked_mul(amount_in, k), LAMBDA g :
  Try(checked_div(g, p.fees.swap_fee_denominator),
      LAMBDA amount_in_after_fee :
  Try(checked_mul(amount_in_after_fee, pc_balance), LAMBDA n :
  Try(checked_div(n, coin_balance), LAMBDA amount_out :
    IF ~Le(amount_out, pc_balance) THEN Err("InsufficientLiquidity")
    ELSE Ok(amount_out))))))

\* swap.rs 196-236: the output of a coin -> pc swap, in u64 throughout
swap_coin_to_pc(amount_in, coin_balance, pc_balance, p) ==
  Try(checked_sub(p.fees.swap_fee_denominator, p.fees.swap_fee_numerator),
      LAMBDA k :
  Try(checked_mul(amount_in, k), LAMBDA g :
  Try(checked_div(g, p.fees.swap_fee_denominator),
      LAMBDA amount_in_after_fee :
  Try(checked_add(coin_balance, amount_in_after_fee), LAMBDA new_coin_balance :
  Try(checked_mul(amount_in_after_fee, pc_balance), LAMBDA n :
  Try(checked_div(n, new_coin_balance), LAMBDA amount_out :
    IF ~Le(amount_out, pc_balance) THEN Err("InsufficientLiquidity")
    ELSE Ok(amount_out)))))))

\* swap_pc_to_coin pricing the gross input: no fee levied
swap_pc_to_coin_no_fee(amount_in, coin_balance, pc_balance, p) ==
  Try(checked_add(pc_balance, amount_in), LAMBDA new_pc_balance :
  Try(checked_mul(amount_in, coin_balance), LAMBDA n :
  Try(checked_div(n, new_pc_balance), LAMBDA amount_out :
    IF ~Le(amount_out, coin_balance) THEN Err("InsufficientLiquidity")
    ELSE Ok(amount_out))))

\* swap.rs 238-278: the output of a pc -> coin swap
swap_pc_to_coin(amount_in, coin_balance, pc_balance, p) ==
  Try(checked_sub(p.fees.swap_fee_denominator, p.fees.swap_fee_numerator),
      LAMBDA k :
  Try(checked_mul(amount_in, k), LAMBDA g :
  Try(checked_div(g, p.fees.swap_fee_denominator),
      LAMBDA amount_in_after_fee :
  Try(checked_add(pc_balance, amount_in_after_fee), LAMBDA new_pc_balance :
  Try(checked_mul(amount_in_after_fee, coin_balance), LAMBDA n :
  Try(checked_div(n, new_pc_balance), LAMBDA amount_out :
    IF ~Le(amount_out, coin_balance) THEN Err("InsufficientLiquidity")
    ELSE Ok(amount_out)))))))

\* swap.rs 280-350: ingress of amount_in signed by the user, then egress of
\* amount_out signed by the pool
execute_swap_transfers(p, t, m, a, amount_in, amount_out, swap_direction) ==
  IF swap_direction = 0
  THEN Then(transfer_tokens_with_hook_support(t, << >>, m.coin,
              a.coin_hook, "user_coin", "coin_vault", amount_in, << >>,
              "MissingTransferHookProgram"), LAMBDA v :
         transfer_tokens_with_hook_support(v.tok, v.log, m.pc,
           a.pc_hook, "pc_vault", "user_pc", amount_out,
           << "tradium", p.coin_vault_mint, p.pc_vault_mint,
              "ctx.bumps.pool" >>,
           "MissingTransferHookProgram"))
  ELSE Then(transfer_tokens_with_hook_support(t, << >>, m.pc,
              a.pc_hook, "user_pc", "pc_vault", amount_in, << >>,
              "MissingTransferHookProgram"), LAMBDA v :
         transfer_tokens_with_hook_support(v.tok, v.log, m.coin,
           a.coin_hook, "coin_vault", "user_coin", amount_out,
           << "tradium", p.coin_vault_mint, p.pc_vault_mint,
              "ctx.bumps.pool" >>,
           "MissingTransferHookProgram"))

\* swap advancing the nonce and raising the swap fee to the whole input
swap_nonce_raising_fee(p, x, out, n) ==
  IF ~n.ok THEN Ret("MathOverflow", p, x.tok, NoOut, x.log)
  ELSE Ret("Ok", [p EXCEPT !.nonce = n.v,
                           !.fees.swap_fee_numerator = p.fees.swap_fee_denominator],
           x.tok, out, x.log)

\* swap.rs 136-144: the nonce n after the transfers x went through
swap_nonce(p, x, out, n) ==
  IF ~n.ok THEN Ret("MathOverflow", p, x.tok, NoOut, x.log)
  ELSE Ret("Ok", [p EXCEPT !.nonce = n.v], x.tok, out, x.log)

\* swap.rs 126-144: x is the outcome of execute_swap_transfers
swap_transferred(p, t, out, x) ==
  IF ~x.ok THEN Ret(x.err, p, t, NoOut, << >>)
  ELSE swap_nonce(p, x.v, out, checked_add_u8(p.nonce, 1))

\* the floor compared only after the transfers x went through
swap_floor_after_transfers(p, t, minimum_amount_out, amount_out, out, x) ==
  IF ~x.ok THEN Ret(x.err, p, t, NoOut, << >>)
  ELSE IF ~Le(minimum_amount_out, amount_out)
  THEN Ret("SlippageExceeded", p, x.v.tok, NoOut, x.v.log)
  ELSE swap_nonce(p, x.v, out, checked_add_u8(p.nonce, 1))

\* swap_priced dispatching the transfers before it compares amount_out with
\* the floor
swap_priced_transfers_first(p, t, m, a, amount_in, minimum_amount_out, swap_direction, amount_out) ==
  IF ~amount_out.ok THEN Ret(amount_out.err, p, t, NoOut, << >>)
  ELSE swap_floor_after_transfers(p, t, minimum_amount_out, amount_out.v,
         IF swap_direction = 0
         THEN [lp |-> U(0), coin |-> U(0), pc |-> amount_out.v]
         ELSE [lp |-> U(0), coin |-> amount_out.v, pc |-> U(0)],
         execute_swap_transfers(p, t, m, a, amount_in, amount_out.v,
                                swap_direction))

\* swap.rs 107-144: amount_out is the outcome of the pricing function
swap_priced(p, t, m, a, amount_in, minimum_amount_out, swap_direction, amount_out) ==
  IF ~amount_out.ok THEN Ret(amount_out.err, p, t, NoOut, << >>)
  ELSE IF ~Le(minimum_amount_out, amount_out.v)
  THEN Ret("SlippageExceeded", p, t, NoOut, << >>)
  ELSE swap_transferred(p, t,
         IF swap_direction = 0
         THEN [lp |-> U(0), coin |-> U(0), pc |-> amount_out.v]
         ELSE [lp |-> U(0), coin |-> amount_out.v, pc |-> U(0)],
         execute_swap_transfers(p, t, m, a, amount_in, amount_out.v,
                                swap_direction))

\* swap.rs 82-145.  `a`: the token programs and hooks supplied.
swap(p, t, m, a, amount_in, minimum_amount_out, swap_direction) ==
  LET coin_vault_balance == t.coin_vault
      pc_vault_balance   == t.pc_vault
  IN
  IF ~(swap_direction <= 1) THEN Ret("InvalidSwapDirection", p, t, NoOut, << >>)
  ELSE IF ~Lt(U(0), amount_in) THEN Ret("InvalidInputAmount", p, t, NoOut, << >>)
  ELSE IF a.input_token_program #
            (IF swap_direction = 0 THEN p.coin_token_program
                                   ELSE p.pc_token_program)
  THEN Ret("InvalidTokenProgram", p, t, NoOut, << >>)
  ELSE IF a.output_token_program #
            (IF swap_direction = 0 THEN p.pc_token_program
                                   ELSE p.coin_token_program)
  THEN Ret("InvalidTokenProgram", p, t, NoOut, << >>)
  ELSE swap_priced(p, t, m, a, amount_in, minimum_amount_out, swap_direction,
         IF swap_direction = 0
         THEN swap_coin_to_pc(amount_in, coin_vault_balance, pc_vault_balance, p)
         ELSE swap_pc_to_coin(amount_in, coin_vault_balance, pc_vault_balance, p))

\* constants.rs 8: the byte string b"pool" (in a list of seeds; where the
\* seeds of deposit name "pool" they mean the key of the pool account)
POOL_SEED == "pool"

\* initialize_pool.rs 15-21: the seeds of the address at which init creates
\* the pool, `bump` being the bump Anchor derived for them; that address is
\* made the authority of the LP mint (line 35) and the owner of both vaults
InitializePoolSeeds(bump) == << POOL_SEED, "coin_mint", "pc_mint", bump >>

\* initialize_pool validating the coin token program only
initialize_pool_coin_only(p, m, a, bump) ==
  LET coin_program_id == a.coin_token_program
      pc_program_id   == a.pc_token_program
  IN
  IF m.coin.owner # SPL_TOKEN_PROGRAM_ID \/ m.pc.owner # SPL_TOKEN_PROGRAM_ID
  THEN Err("AccountOwnedByWrongProgram")
  ELSE IF coin_program_id # SPL_TOKEN_PROGRAM_ID
       /\ coin_program_id # SPL_TOKEN_2022_PROGRAM_ID
  THEN Err("InvalidTokenProgram")
  ELSE IF coin_program_id # m.coin.owner \/ pc_program_id # m.pc.owner
  THEN Err("TokenIncorrectProgramId")
  ELSE Ok([p EXCEPT
        !.created = TRUE,
        !.status = 1,
        !.nonce = bump,
        !.coin_decimals = U(m.coin.decimals),
        !.pc_decimals = U(m.pc.decimals),
        !.coin_vault_mint = "coin_mint",
        !.pc_vault_mint = "pc_mint",
        !.lp_mint = "lp_mint",
        !.coin_vault = "coin_vault",
        !.pc_vault = "pc_vault",
        !.coin_token_program = coin_program_id,
        !.pc_token_program = pc_program_id,
        !.fees = [ trade_fee_numerator |-> U(DEFAULT_TRADE_FEE),
                   trade_fee_denominator |-> U(FEE_DENOMINATOR),
                   swap_fee_numerator |-> U(DEFAULT_OWNER_FEE),
                   swap_fee_denominator |-> U(FEE_DENOMINATOR) ],
        !.whitelisted_transfer_hooks =
            [i \in 1..MAX_WHITELISTED_HOOKS |-> DEFAULT_PUBKEY],
        !.num_whitelisted_hooks = 0,
        !.initialized = TRUE ])

\* initialize_pool.rs 10-207.  `a`: the token programs supplied; `bump` is the
\* bump Anchor derived for the pool address.  coin_mint and pc_mint are
\* Account<'info, Mint> of anchor_spl::token, which Anchor loads only from an
\* account the classic token program owns.  initialize_account is rejected
\* by a token program that does not own the mint.
initialize_pool(p, m, a, bump) ==
  LET coin_program_id == a.coin_token_program
      pc_program_id   == a.pc_token_program
  IN
  IF m.coin.owner # SPL_TOKEN_PROGRAM_ID \/ m.pc.owner # SPL_TOKEN_PROGRAM_ID
  THEN Err("AccountOwnedByWrongProgram")
  ELSE IF coin_program_id # SPL_TOKEN_PROGRAM_ID
       /\ coin_program_id # SPL_TOKEN_2022_PROGRAM_ID
  THEN Err("InvalidTokenProgram")
  ELSE IF pc_program_id # SPL_TOKEN_PROGRAM_ID
            /\ pc_program_id # SPL_TOKEN_2022_PROGRAM_ID
  THEN Err("InvalidTokenProgram")
  ELSE IF coin_program_id # m.coin.owner \/ pc_program_id # m.pc.owner
  THEN Err("TokenIncorrectProgramId")
  ELSE Ok([p EXCEPT
        !.created = TRUE,
        !.status = 1,
        !.nonce = bump,
        !.coin_decimals = U(m.coin.decimals),
        !.pc_decimals = U(m.pc.decimals),
        !.coin_vault_mint = "coin_mint",
        !.pc_vault_mint = "pc_mint",
        !.lp_mint = "lp_mint",
        !.coin_vault = "coin_vault",
        !.pc_vault = "pc_vault",
        !.coin_token_program = coin_program_id,
        !.pc_token_program = pc_program_id,
        !.fees = [ trade_fee_numerator |-> U(DEFAULT_TRADE_FEE),
                   trade_fee_denominator |-> U(FEE_DENOMINATOR),
                   swap_fee_numerator |-> U(DEFAULT_OWNER_FEE),
                   swap_fee_denominator |-> U(FEE_DENOMINATOR) ],
        !.whitelisted_transfer_hooks =
            [i \in 1..MAX_WHITELISTED_HOOKS |-> DEFAULT_PUBKEY],
        !.num_whitelisted_hooks = 0,
        !.initialized = TRUE ])

(***************************************************************************)
(* The state machine.  An instruction is one atomic transition: the        *)
(* runtime keeps the accounts a handler wrote only if it returned Ok, and  *)
(* discards every write (its CPIs' included) if it returned an error.      *)
(***************************************************************************)
Init ==
  /\ pool = DefaultPool
  /\ tok = [ coin_vault |-> U(0), pc_vault |-> U(0), lp_supply |-> U(0),
             user_coin |-> U(UserCoin0), user_pc |-> U(UserPc0),
             user_lp |-> U(0) ]
  /\ mints \in MintWorlds
  /\ last = [ op |-> "none", res |-> "none", pre |-> Snapshot,
              args |-> NoArgs, out |-> NoOut, log |-> << >> ]
  /\ hist = [ ok_ops |-> 0, nonce0 |-> 0 ]

\* Commit keeping what the handler wrote before it returned its error
CommitPartial(op, r, args) ==
  /\ pool' = r.pool
  /\ tok' = r.tok
  /\ last' = [ op |-> op, res |-> r.res, pre |-> Snapshot,
               args |-> IF r.res = "Ok" THEN args ELSE FailedArgs(args),
               out |-> r.out, log |-> IF r.res = "Ok" THEN r.log ELSE << >> ]

\* what the runtime keeps of an instruction that returned r
Commit(op, r, args) ==
  IF r.res = "Ok"
  THEN /\ pool' = r.pool
       /\ tok' = r.tok
       /\ last' = [ op |-> op, res |-> "Ok", pre |-> Snapshot, args |-> args,
                    out |-> r.out, log |-> r.log ]
  ELSE /\ pool' = pool
       /\ tok' = tok
       /\ last' = [ op |-> op, res |-> r.res, pre |-> Snapshot,
                    args |-> FailedArgs(args), out |-> NoOut, log |-> << >> ]

\* a handler runs only on a pool account that exists (Account<'info, Tradium>)
NotInitialized == Ret("AccountNotInitialized", pool, tok, NoOut, << >>)

\* an instruction whose accounts failed the hook gate never reaches its handler
HookRejected == Ret("InvalidTransferHookProgram", pool, tok, NoOut, << >>)

\* deposit.rs 44-64 and withdraw.rs 91-112: both hook accounts pass the gate
hook_accounts(a) ==
  /\ hook_constraint(pool, mints.coin, a.coin_hook)
  /\ hook_constraint(pool, mints.pc, a.pc_hook)

\* swap.rs 59-79: both hook accounts pass swap's gate
swap_hook_accounts(a) ==
  /\ swap_hook_constraint(pool, mints.coin, a.coin_hook)
  /\ swap_hook_constraint(pool, mints.pc, a.pc_hook)

\* withdraw's address constraints with the one on coin_vault left out
withdraw_addresses_but_coin_vault(p, a) ==
  /\ a.pc_vault = p.pc_vault
  /\ a.coin_mint = p.coin_vault_mint
  /\ a.pc_mint = p.pc_vault_mint
  /\ a.lp_mint = p.lp_mint

\* withdraw.rs 54-81: the `address = pool....` constraints of coin_vault,
\* pc_vault, coin_vault_mint, pc_vault_mint and lp_mint
withdraw_addresses(p, a) ==
  /\ a.coin_vault = p.coin_vault
  /\ a.pc_vault = p.pc_vault
  /\ a.coin_mint = p.coin_vault_mint
  /\ a.pc_mint = p.pc_vault_mint
  /\ a.lp_mint = p.lp_mint

\* swap.rs 30-51: the `constraint = ....key() == pool....` constraints of
\* coin_vault, pc_vault, coin_mint and pc_mint
swap_addresses(p, a) ==
  /\ a.coin_vault = p.coin_vault
  /\ a.pc_vault = p.pc_vault
  /\ a.coin_mint = p.coin_vault_mint
  /\ a.pc_mint = p.pc_vault_mint

\* an instruction whose accounts failed an address constraint, or a raw
\* constraint without an error of its own, never reaches its handler
AddressRejected == Ret("ConstraintAddress", pool, tok, NoOut, << >>)
RawRejected     == Ret("ConstraintRaw", pool, tok, NoOut, << >>)

\* the deposit instruction: the account checks, then the handler
deposit_instruction(a) ==
  IF ~pool.created THEN { NotInitialized }
  ELSE IF ~hook_accounts(a) THEN { HookRejected }
  ELSE deposit(pool, tok, mints, a)

\* the withdraw instruction: the account checks, then the handler
withdraw_instruction(a) ==
  IF ~pool.created THEN NotInitialized
  ELSE IF ~withdraw_addresses(pool, a) THEN AddressRejected
  ELSE IF ~hook_accounts(a) THEN HookRejected
  ELSE withdraw(pool, tok, mints, a)

\* the swap instruction: the account checks, then the handler
swap_instruction(a, amount_in, minimum_amount_out, swap_direction) ==
  IF ~pool.created THEN NotInitialized
  ELSE IF ~swap_addresses(pool, a) THEN RawRejected
  ELSE IF ~swap_hook_accounts(a) THEN HookRejected
  ELSE swap(pool, tok, mints, a, amount_in, minimum_amount_out, swap_direction)

\* the hook program account a correct caller passes for the coin mint, and
\* the one a deviating caller passes
GoodHook  == IF HasTransferHook(mints.coin) THEN HOOK_PROGRAM ELSE NONE
OtherHook == IF HasTransferHook(mints.coin) THEN NONE ELSE HOOK_PROGRAM

\* the account keys a caller passes that agree with the pool's configuration
GoodKeys ==
  [ coin_token_program |-> mints.coin.owner, pc_token_program |-> mints.pc.owner,
    coin_vault |-> "coin_vault", pc_vault |-> "pc_vault", lp_mint |-> "lp_mint",
    coin_mint |-> "coin_mint", pc_mint |-> "pc_mint",
    coin_hook |-> GoodHook, pc_hook |-> NONE ]

\* keys with the one account `f` replaced (NONE: nothing replaced)
Deviate(k, f) ==
  IF f = NONE THEN k
  ELSE IF f = "coin_hook" THEN [k EXCEPT !.coin_hook = OtherHook]
  ELSE [k EXCEPT ![f] = OTHER_ID]

KeyFields == { "coin_token_program", "pc_token_program", "coin_vault",
               "pc_vault", "lp_mint", "coin_mint", "pc_mint" }

\* the transition an instruction that returned r makes
Apply(op, r, args) ==
  /\ Commit(op, r, args)
  /\ hist' = IF r.res = "Ok" THEN [hist EXCEPT !.ok_ops = @ + 1] ELSE hist
  /\ UNCHANGED mints

\* the transition initialize_pool makes, r being what it returned
ApplyInitialize(r, a, bump) ==
  /\ Commit("initialize_pool",
            Ret(r.err, IF r.ok THEN r.v ELSE pool, tok, NoOut, << >>),
            [NoArgs EXCEPT !.coin_token_program = a.coin_token_program,
                           !.pc_token_program = a.pc_token_program])
  /\ hist' = IF r.ok THEN [ok_ops |-> 0, nonce0 |-> bump] ELSE hist
  /\ UNCHANGED mints

\* initialize_pool run without the `init` constraint on the pool account
InitializePoolAgain ==
  \E cp \in { SPL_TOKEN_PROGRAM_ID, SPL_TOKEN_2022_PROGRAM_ID, OTHER_ID },
     pp \in { SPL_TOKEN_PROGRAM_ID, SPL_TOKEN_2022_PROGRAM_ID, OTHER_ID },
     bump \in Bumps :
    ApplyInitialize(
      initialize_pool(pool, mints,
        [coin_token_program |-> cp, pc_token_program |-> pp], bump),
      [coin_token_program |-> cp, pc_token_program |-> pp], bump)

InitializePool ==
  \E cp \in { SPL_TOKEN_PROGRAM_ID, SPL_TOKEN_2022_PROGRAM_ID, OTHER_ID },
     pp \in { SPL_TOKEN_PROGRAM_ID, SPL_TOKEN_2022_PROGRAM_ID, OTHER_ID },
     bump \in Bumps :
    ApplyInitialize(
      IF pool.created THEN Err("AccountAlreadyInUse")
      ELSE initialize_pool(pool, mints,
             [coin_token_program |-> cp, pc_token_program |-> pp], bump),
      [coin_token_program |-> cp, pc_token_program |-> pp], bump)

\* every pair of amounts with the right accounts, and the amounts (1, 1) with
\* one account replaced
Deposit ==
  \E x \in Amounts, y \in Amounts, f \in KeyFields \cup {"coin_hook", NONE} :
    /\ f # NONE => (x = U(1) /\ y = U(1))
    /\ \E r \in deposit_instruction(Deviate(GoodKeys, f)
                                     @@ [amount_coin |-> x, amount_pc |-> y]) :
         Apply("deposit", r, Args(x, y, 0, Deviate(GoodKeys, f)))

Withdraw ==
  \E x \in Amounts, f \in KeyFields \cup {"coin_hook", NONE} :
    /\ f # NONE => x = U(1)
    /\ Apply("withdraw",
             withdraw_instruction(Deviate(GoodKeys, f) @@ [lp_amount |-> x]),
             Args(x, U(0), 0, Deviate(GoodKeys, f)))

\* the token programs and hooks a correct caller passes to a swap
SwapKeys(d) ==
  [ input_token_program |-> IF d = 0 THEN mints.coin.owner ELSE mints.pc.owner,
    output_token_program |-> IF d = 0 THEN mints.pc.owner ELSE mints.coin.owner,
    coin_vault |-> "coin_vault", pc_vault |-> "pc_vault",
    coin_mint |-> "coin_mint", pc_mint |-> "pc_mint",
    coin_hook |-> GoodHook, pc_hook |-> NONE ]

\* the accounts of a swap that the pool's configuration determines
SwapKeyFields == { "input_token_program", "output_token_program",
                   "coin_vault", "pc_vault", "coin_mint", "pc_mint" }

\* every amount, floor and direction with the right accounts; the amount 1
\* with one account replaced; the amount 1 with a direction that is neither
Swap ==
  \E x \in Amounts, mo \in MinOuts, d \in {0, 1, 2},
     f \in SwapKeyFields \cup {"coin_hook", NONE} :
    /\ (f # NONE \/ d = 2) => (x = U(1) /\ mo = U(0))
    /\ d = 2 => f = NONE
    /\ Apply("swap",
             swap_instruction(Deviate(SwapKeys(d), f), x, mo, d),
             Args(x, mo, d, Deviate(SwapKeys(d), f)))

Next == InitializePool \/ Deposit \/ Withdraw \/ Swap

Spec == Init /\ [][Next]_vars

(***************************************************************************)
(* One instruction applied to a pool drawn from a set of pools: the same   *)
(* handlers, on balances and decimals of realistic size.  SpecStep draws   *)
(* the pool, its vaults and the share supply, then runs one deposit, one   *)
(* swap or one withdraw with the right accounts, and after a deposit the   *)
(* withdraw of the shares it minted.                                       *)
(***************************************************************************)
ClassicMints == [coin |-> Mint(SPL_TOKEN_PROGRAM_ID, NONE, 0),
                 pc   |-> Mint(SPL_TOKEN_PROGRAM_ID, NONE, 0)]

\* the pool initialize_pool creates over ClassicMints
InitializedPool ==
  initialize_pool(DefaultPool, ClassicMints,
                  [coin_token_program |-> SPL_TOKEN_PROGRAM_ID,
                   pc_token_program |-> SPL_TOKEN_PROGRAM_ID],
                  U8_MAX - NonceRoom).v

\* coin_decimals, pc_decimals, sys_decimal_value of the pools drawn
StepDecimals == { <<0, 0, 0>>, <<6, 6, 0>>, <<6, 6, 6>>, <<0, 6, 6>> }

\* coin vault, pc vault, share supply of the pools drawn
StepReserves == { <<0, 0, 0>>, <<1000000, 4000000, 2000000>>,
                  <<4000000, 1000000, 2000000>>, <<3, 1, 1>> }

\* amounts offered to the one instruction
StepAmounts == { U(0), U(1), U(3), U(100000), U(1000000), U(4000000) }

\* the user's balance of each asset in a drawn state
StepUserBalance == U(5000000)

InitStep ==
  /\ pool \in { [InitializedPool EXCEPT !.coin_decimals = U(d[1]),
                                        !.pc_decimals = U(d[2]),
                                        !.sys_decimal_value = U(d[3])] :
                d \in StepDecimals }
  /\ tok \in { [ coin_vault |-> U(b[1]), pc_vault |-> U(b[2]),
                 lp_supply |-> U(b[3]), user_coin |-> StepUserBalance,
                 user_pc |-> StepUserBalance, user_lp |-> U(b[3]) ] :
               b \in StepReserves }
  /\ mints = ClassicMints
  /\ last = [ op |-> "none", res |-> "none", pre |-> Snapshot,
              args |-> NoArgs, out |-> NoOut, log |-> << >> ]
  /\ hist = [ ok_ops |-> 0, nonce0 |-> pool.nonce ]

StepDeposit ==
  /\ last.op = "none"
  /\ \E x \in StepAmounts, y \in StepAmounts :
       \E r \in deposit_instruction(GoodKeys
                                    @@ [amount_coin |-> x, amount_pc |-> y]) :
         Apply("deposit", r, Args(x, y, 0, GoodKeys))

StepSwap ==
  /\ last.op = "none"
  /\ \E x \in StepAmounts, d \in {0, 1} :
       Apply("swap", swap_instruction(SwapKeys(d), x, U(0), d),
             Args(x, U(0), d, SwapKeys(d)))

StepWithdraw ==
  /\ last.op = "none"
  /\ \E x \in StepAmounts :
       Apply("withdraw",
             withdraw_instruction(GoodKeys @@ [lp_amount |-> x]),
             Args(x, U(0), 0, GoodKeys))

\* after a successful deposit: the withdraw of exactly the shares it minted
StepWithdrawMinted ==
  /\ last.op = "deposit"
  /\ last.res = "Ok"
  /\ Apply("withdraw",
           withdraw_instruction(GoodKeys @@ [lp_amount |-> last.out.lp]),
           Args(last.out.lp, U(0), 0, GoodKeys))

NextStep == StepDeposit \/ StepSwap \/ StepWithdraw \/ StepWithdrawMinted

SpecStep == InitStep /\ [][NextStep]_vars

(***************************************************************************)
(* One instruction applied to a funded pool over a drawn pair of mints     *)
(* with a drawn hook whitelist, each of the two hook accounts absent, the  *)
(* program the mint declares, or another program.  No instruction of the   *)
(* program writes the whitelist and initialize_pool loads classic mints    *)
(* only, so SpecGate draws the whitelist and the mints.                    *)
(***************************************************************************)
\* the mints drawn: classic, extended without the extension, extended with a
\* TransferHook extension declaring HOOK_PROGRAM
GateMintKinds ==
  { Mint(SPL_TOKEN_PROGRAM_ID, NONE, 0),
    Mint(SPL_TOKEN_2022_PROGRAM_ID, NONE, 0),
    Mint(SPL_TOKEN_2022_PROGRAM_ID, HOOK_PROGRAM, 0) }

\* whitelisted_transfer_hooks with the entries `first` and `second` in front
Whitelist(first, second) ==
  [i \in 1..MAX_WHITELISTED_HOOKS |->
     IF i = 1 THEN first ELSE IF i = 2 THEN second ELSE DEFAULT_PUBKEY]

\* the whitelists drawn, each with its num_whitelisted_hooks
GateWhitelists ==
  { << Whitelist(DEFAULT_PUBKEY, DEFAULT_PUBKEY), 0 >>,
    << Whitelist(HOOK_PROGRAM, DEFAULT_PUBKEY), 1 >>,
    << Whitelist(HOOK_PROGRAM, DEFAULT_PUBKEY), 0 >>,
    << Whitelist(OTHER_ID, HOOK_PROGRAM), 1 >>,
    << Whitelist(OTHER_ID, HOOK_PROGRAM), 2 >> }

\* the hook program accounts passed: none, the declared one, another one
HookArgs == { NONE, HOOK_PROGRAM, OTHER_ID }

\* the amounts of the one instruction
GateCoin == U(100000)
GatePc   == U(400000)
GateLp   == U(200000)

\* a pool over the mints m, holding the whitelist w
GatePool(m, w) ==
  [InitializedPool EXCEPT !.coin_token_program = m.coin.owner,
                          !.pc_token_program = m.pc.owner,
                          !.whitelisted_transfer_hooks = w[1],
                          !.num_whitelisted_hooks = w[2]]

InitGate ==
  /\ mints \in [coin : GateMintKinds, pc : GateMintKinds]
  /\ pool \in { GatePool(mints, w) : w \in GateWhitelists }
  /\ tok = [ coin_vault |-> U(1000000), pc_vault |-> U(4000000),
             lp_supply |-> U(2000000), user_coin |-> StepUserBalance,
             user_pc |-> StepUserBalance, user_lp |-> U(2000000) ]
  /\ last = [ op |-> "none", res |-> "none", pre |-> Snapshot,
              args |-> NoArgs, out |-> NoOut, log |-> << >> ]
  /\ hist = [ ok_ops |-> 0, nonce0 |-> pool.nonce ]

\* the accounts of GoodKeys with the two hook accounts ch and ph
GateKeys(k, ch, ph) == [k EXCEPT !.coin_hook = ch, !.pc_hook = ph]

GateDeposit ==
  /\ last.op = "none"
  /\ \E ch \in HookArgs, ph \in HookArgs :
       \E r \in deposit_instruction(GateKeys(GoodKeys, ch, ph)
                  @@ [amount_coin |-> GateCoin, amount_pc |-> GatePc]) :
         Apply("deposit", r, Args(GateCoin, GatePc, 0, GateKeys(GoodKeys, ch, ph)))

GateWithdraw ==
  /\ last.op = "none"
  /\ \E ch \in HookArgs, ph \in HookArgs :
       Apply("withdraw",
             withdraw_instruction(GateKeys(GoodKeys, ch, ph)
                                    @@ [lp_amount |-> GateLp]),
             Args(GateLp, U(0), 0, GateKeys(GoodKeys, ch, ph)))

GateSwap ==
  /\ last.op = "none"
  /\ \E ch \in HookArgs, ph \in HookArgs, d \in {0, 1} :
       Apply("swap",
             swap_instruction(GateKeys(SwapKeys(d), ch, ph), GateCoin, U(0), d),
             Args(GateCoin, U(0), d, GateKeys(SwapKeys(d), ch, ph)))

NextGate == GateDeposit \/ GateWithdraw \/ GateSwap

SpecGate == InitGate /\ [][NextGate]_vars

(***************************************************************************)
(* The arithmetic of the handlers applied to drawn inputs.  SpecMath draws *)
(* the decimals of the pool, its two vault balances and the share supply   *)
(* over the whole u64 range, then applies one of integer_sqrt,             *)
(* normalize_amount, calculate_share, genesis_lp_tokens, the two swap      *)
(* pricing functions and the withdraw share to a drawn amount.  `last`     *)
(* holds the function applied, its arguments and what it returned.         *)
(***************************************************************************)
TWO_33 == Mul(U(2), TWO_32)
TWO_63 == Div(TWO_64, U(2))

\* coin_decimals, pc_decimals, sys_decimal_value of the pools drawn
MathDecimals == { << U(0), U(0), U(0) >>, << U(6), U(9), U(9) >>,
                  << U(9), U(6), U(0) >>, << U(0), U(0), U(19) >>,
                  << U(0), U(0), U(20) >>, << U(25), U(0), U(0) >>,
                  << U(0), U(0), TWO_32 >> }

\* coin vault, pc vault, share supply of the pools drawn
MathReserves == { << U(0), U(0), U(0) >>,
                  << U(1000000), U(4000000), U(2000000) >>,
                  << TWO_33, TWO_33, TWO_33 >>,
                  << U(1), TWO_63, TWO_33 >> }

\* the u64 amounts drawn: small ones, squares and their neighbours, and the
\* top of the range
MathValues == { U(0), U(1), U(2), U(3), U(4), U(15), U(16), U(17),
                U(1000000), Sub(TWO_32, U(1)), TWO_33,
                Sub(Mul(TWO_32, TWO_32), Mul(U(2), TWO_32)),
                Sub(U64_MAX, Mul(U(2), TWO_32)),
                TWO_63, Sub(U64_MAX, U(1)), U64_MAX }

InitMath ==
  /\ pool \in { [InitializedPool EXCEPT !.coin_decimals = d[1],
                                        !.pc_decimals = d[2],
                                        !.sys_decimal_value = d[3]] :
                d \in MathDecimals }
  /\ tok \in { [ coin_vault |-> b[1], pc_vault |-> b[2], lp_supply |-> b[3],
                 user_coin |-> U(0), user_pc |-> U(0), user_lp |-> b[3] ] :
               b \in MathReserves }
  /\ mints = ClassicMints
  /\ last = [ op |-> "none", res |-> "none", pre |-> Snapshot,
              args |-> NoArgs, out |-> NoOut, log |-> << >> ]
  /\ hist = [ ok_ops |-> 0, nonce0 |-> pool.nonce ]

\* the function f applied to x (and y, and the direction d) returned r
Applied(f, r, x, y, d) ==
  /\ last' = [ op |-> f, res |-> r.err, pre |-> Snapshot,
               args |-> [NoArgs EXCEPT !.a = x, !.b = y, !.dir = d],
               out |-> [NoOut EXCEPT !.lp = r.v], log |-> << >> ]
  /\ UNCHANGED << pool, tok, mints, hist >>

MathSqrt ==
  /\ last.op = "none"
  /\ \E n \in MathValues :
       Applied("integer_sqrt", integer_sqrt(n), n, U(0), 0)

MathNormalize ==
  /\ last.op = "none"
  /\ \E amount \in MathValues :
       \E r \in normalize_amount(amount, pool.coin_decimals, pool.sys_decimal_value) :
         Applied("normalize_amount", r, amount, U(0), 0)

MathShare ==
  /\ last.op = "none"
  /\ \E amount \in MathValues :
       Applied("calculate_share",
               calculate_share(amount, tok.coin_vault, tok.lp_supply),
               amount, U(0), 0)

MathGenesis ==
  /\ last.op = "none"
  /\ \E x \in MathValues, y \in MathValues :
       \E r \in genesis_lp_tokens(pool, x, y) :
         Applied("genesis_lp_tokens", r, x, y, 0)

MathSwapCoinToPc ==
  /\ last.op = "none"
  /\ \E amount_in \in MathValues :
       Applied("swap_coin_to_pc",
               swap_coin_to_pc(amount_in, tok.coin_vault, tok.pc_vault, pool),
               amount_in, U(0), 0)

MathSwapPcToCoin ==
  /\ last.op = "none"
  /\ \E amount_in \in MathValues :
       Applied("swap_pc_to_coin",
               swap_pc_to_coin(amount_in, tok.coin_vault, tok.pc_vault, pool),
               amount_in, U(0), 1)

MathWithdrawShare ==
  /\ last.op = "none"
  /\ \E lp_amount \in MathValues :
       Applied("withdraw_share",
               withdraw_share(tok.coin_vault, lp_amount, tok.lp_supply),
               lp_amount, U(0), 0)

NextMath ==
  \/ MathSqrt
  \/ MathNormalize
  \/ MathShare
  \/ MathGenesis
  \/ MathSwapCoinToPc
  \/ MathSwapPcToCoin
  \/ MathWithdrawShare

SpecMath == InitMath /\ [][NextMath]_vars

(***************************************************************************)
(* A pool created by initialize_pool over two 6-decimal mints, then up to  *)
(* MaxFreshOps successful deposits, swaps and withdraws of realistic size  *)
(* with the right accounts.                                                *)
(***************************************************************************)
MaxFreshOps == 2

SixDecimalMints == [coin |-> Mint(SPL_TOKEN_PROGRAM_ID, NONE, 6),
                    pc   |-> Mint(SPL_TOKEN_PROGRAM_ID, NONE, 6)]

InitFresh ==
  /\ pool = DefaultPool
  /\ tok = [ coin_vault |-> U(0), pc_vault |-> U(0), lp_supply |-> U(0),
             user_coin |-> StepUserBalance, user_pc |-> StepUserBalance,
             user_lp |-> U(0) ]
  /\ mints = SixDecimalMints
  /\ last = [ op |-> "none", res |-> "none", pre |-> Snapshot,
              args |-> NoArgs, out |-> NoOut, log |-> << >> ]
  /\ hist = [ ok_ops |-> 0, nonce0 |-> 0 ]

FreshDeposit ==
  /\ pool.created
  /\ hist.ok_ops < MaxFreshOps
  /\ \E x \in StepAmounts, y \in StepAmounts :
       \E r \in deposit_instruction(GoodKeys
                                    @@ [amount_coin |-> x, amount_pc |-> y]) :
         Apply("deposit", r, Args(x, y, 0, GoodKeys))

FreshSwap ==
  /\ pool.created
  /\ hist.ok_ops < MaxFreshOps
  /\ \E x \in StepAmounts, d \in {0, 1} :
       Apply("swap", swap_instruction(SwapKeys(d), x, U(0), d),
             Args(x, U(0), d, SwapKeys(d)))

FreshWithdraw ==
  /\ pool.created
  /\ hist.ok_ops < MaxFreshOps
  /\ \E x \in { U(1), tok.user_lp } :
       Apply("withdraw",
             withdraw_instruction(GoodKeys @@ [lp_amount |-> x]),
             Args(x, U(0), 0, GoodKeys))

NextFresh == InitializePool \/ FreshDeposit \/ FreshSwap \/ FreshWithdraw

SpecFresh == InitFresh /\ [][NextFresh]_vars

(***************************************************************************)
(* The properties.  `last` holds the instruction that just ran: its        *)
(* arguments, its result, what it paid out, and the accounts as they were  *)
(* before it.                                                              *)
(***************************************************************************)
Operations == { "deposit", "withdraw", "swap" }

SwapOk     == last.op = "swap" /\ last.res = "Ok"
DepositOk  == last.op = "deposit" /\ last.res = "Ok"
WithdrawOk == last.op = "withdraw" /\ last.res = "Ok"

\* the product of the two reserves held in ledger t
Product(t) == Mul(t.coin_vault, t.pc_vault)

\* the reserve a swap in direction d pays into, and the one it pays out of
InVault(t, d)  == IF d = 0 THEN t.coin_vault ELSE t.pc_vault
OutVault(t, d) == IF d = 0 THEN t.pc_vault ELSE t.coin_vault
InUser(t, d)   == IF d = 0 THEN t.user_coin ELSE t.user_pc
OutUser(t, d)  == IF d = 0 THEN t.user_pc ELSE t.user_coin

\* what the last swap paid out
AmountOut == IF last.args.dir = 0 THEN last.out.pc ELSE last.out.coin

\* floor(amount_in * (denominator - numerator) / denominator)
NetOf(amount_in, fees) ==
  Div(Mul(amount_in, Sub(fees.swap_fee_denominator, fees.swap_fee_numerator)),
      fees.swap_fee_denominator)

\* floor(net * R_out / (R_in + net))
OutOf(net, r_in, r_out) == Div(Mul(net, r_out), Add(r_in, net))

\* C1: a successful swap leaves the in-vault at its reserve plus the gross
\* amount_in and the out-vault at its reserve minus amount_out, and the
\* product of the two reserves after it is at least the product before it.
C1_SwapProductNonDecreasing ==
  SwapOk =>
    /\ InVault(tok, last.args.dir)
         = Add(InVault(last.pre.tok, last.args.dir), last.args.a)
    /\ Le(AmountOut, OutVault(last.pre.tok, last.args.dir))
    /\ Add(OutVault(tok, last.args.dir), AmountOut)
         = OutVault(last.pre.tok, last.args.dir)
    /\ Le(Product(last.pre.tok), Product(tok))

\* C1 witness: a swap on a funded pool paid out a positive amount
C1_SwapPaidOut ==
  /\ SwapOk
  /\ Lt(U(0), last.pre.tok.lp_supply)
  /\ Lt(U(0), AmountOut)
  /\ Lt(U(0), Product(tok))

\* C2: every successful swap with a positive fee numerator and a positive
\* net input strictly grows the product of the reserves.
C2_SwapProductStrictlyGrows ==
  ( /\ SwapOk
    /\ Lt(U(0), last.pre.pool.fees.swap_fee_numerator)
    /\ Lt(U(0), NetOf(last.args.a, last.pre.pool.fees)) )
  => Lt(Product(last.pre.tok), Product(tok))

\* C3: after every successful instruction both reserves are positive exactly
\* when the share supply is positive.
C3_ReservesIffSupply ==
  last.res = "Ok" =>
    ( (Lt(U(0), tok.coin_vault) /\ Lt(U(0), tok.pc_vault))
        <=> Lt(U(0), tok.lp_supply) )

\* C3 witness: a withdrawal of part of the supply left shares and reserves
C3_PartialWithdraw ==
  /\ WithdrawOk
  /\ Lt(U(0), tok.lp_supply)
  /\ Lt(U(0), tok.coin_vault)
  /\ Lt(U(0), tok.pc_vault)

\* C4: while the share supply is zero no swap and no withdraw succeeds.
C4_EmptyPoolAdmitsOnlyDeposit ==
  (last.res = "Ok" /\ last.op \in { "swap", "withdraw" })
  => last.pre.tok.lp_supply # U(0)

\* C5: the nonce is its value right after init plus the number of successful
\* deposits, withdrawals and swaps since, and no deposit, withdraw or swap
\* fails on account of the counter.
C5_NonceCountsOperations ==
  /\ pool.created => pool.nonce = hist.nonce0 + hist.ok_ops
  /\ last.op \in Operations => last.res # "MathOverflow"

C7_InactivePoolRejects ==
  (last.op \in Operations /\ last.pre.pool.status # 1)
  => (last.res = "InvalidPoolState" /\ pool = last.pre.pool
        /\ tok = last.pre.tok)

\* floor(amount * S / R) for a positive amount against a positive reserve
ShareOf(amount, r, s) ==
  IF Lt(U(0), r) /\ Lt(U(0), amount) THEN Div(Mul(amount, s), r) ELSE U(0)

\* the two proportional shares of the last deposit, from the reserves and the
\* supply as they were before it
ShareCoin ==
  ShareOf(last.args.a, last.pre.tok.coin_vault, last.pre.tok.lp_supply)
SharePc ==
  ShareOf(last.args.b, last.pre.tok.pc_vault, last.pre.tok.lp_supply)

\* C8: a successful deposit into a pool with a positive share supply mints
\* exactly the smaller of amount_coin * S / R_c and amount_pc * S / R_p, with
\* R_c, R_p and S as they were before the deposit's transfers.
C8_ProportionalDepositMintsMin ==
  (DepositOk /\ Lt(U(0), last.pre.tok.lp_supply)) =>
    /\ last.out.lp = Min(ShareCoin, SharePc)
    /\ tok.lp_supply = Add(last.pre.tok.lp_supply, last.out.lp)
    /\ tok.user_lp = Add(last.pre.tok.user_lp, last.out.lp)

\* C8 witness: such a deposit whose two shares differ
C8_UnequalShares ==
  /\ DepositOk
  /\ Lt(U(0), last.pre.tok.lp_supply)
  /\ Lt(U(0), SharePc)
  /\ Lt(SharePc, ShareCoin)
  /\ last.out.lp = SharePc

\* amount scaled from `dec` decimals to `sys` decimals
NormalizedOf(amount, dec, sys) ==
  IF Le(dec, sys) THEN Mul(amount, Pow(U(10), ToNat(Sub(sys, dec))))
  ELSE Div(amount, Pow(U(10), ToNat(Sub(dec, sys))))

\* the product of the two normalized amounts of the last deposit
GenesisProduct ==
  Mul(NormalizedOf(last.args.a, last.pre.pool.coin_decimals,
                   last.pre.pool.sys_decimal_value),
      NormalizedOf(last.args.b, last.pre.pool.pc_decimals,
                   last.pre.pool.sys_decimal_value))

\* C9: a successful deposit into a pool with no shares mints the integer
\* square root s of the product n of the two normalized amounts:
\* s * s <= n < (s + 1) * (s + 1).
C9_GenesisDepositMintsSqrt ==
  (DepositOk /\ last.pre.tok.lp_supply = U(0)) =>
    /\ Le(Mul(last.out.lp, last.out.lp), GenesisProduct)
    /\ Lt(GenesisProduct,
          Mul(Add(last.out.lp, U(1)), Add(last.out.lp, U(1))))
    /\ tok.lp_supply = last.out.lp
    /\ tok.user_lp = Add(last.pre.tok.user_lp, last.out.lp)

\* C9 witness: decimals 6/6/6 and the amounts (1_000_000, 4_000_000) minted
\* 2_000_000 shares
C9_GenesisExample ==
  /\ DepositOk
  /\ last.pre.tok.lp_supply = U(0)
  /\ last.pre.pool.coin_decimals = U(6)
  /\ last.pre.pool.pc_decimals = U(6)
  /\ last.pre.pool.sys_decimal_value = U(6)
  /\ last.args.a = U(1000000)
  /\ last.args.b = U(4000000)
  /\ last.out.lp = U(2000000)

\* C10: a successful swap of amount_in pays out
\* floor(net * R_out / (R_in + net)), net = floor(amount_in * (den - num) / den),
\* adds the gross amount_in to the in-vault and takes the output from the
\* out-vault; the user's two balances move by the same amounts the other way.
\* Direction 0 is coin -> pc, direction 1 its mirror.
C10_SwapFormula ==
  SwapOk =>
    /\ AmountOut
         = OutOf(NetOf(last.args.a, last.pre.pool.fees),
                 InVault(last.pre.tok, last.args.dir),
                 OutVault(last.pre.tok, last.args.dir))
    /\ InVault(tok, last.args.dir)
         = Add(InVault(last.pre.tok, last.args.dir), last.args.a)
    /\ Add(OutVault(tok, last.args.dir), AmountOut)
         = OutVault(last.pre.tok, last.args.dir)
    /\ Add(InUser(tok, last.args.dir), last.args.a)
         = InUser(last.pre.tok, last.args.dir)
    /\ OutUser(tok, last.args.dir)
         = Add(OutUser(last.pre.tok, last.args.dir), AmountOut)
    /\ last.out = [ lp |-> U(0),
                    coin |-> IF last.args.dir = 0 THEN U(0) ELSE AmountOut,
                    pc |-> IF last.args.dir = 0 THEN AmountOut ELSE U(0) ]

\* C10 witness: reserves (1_000_000, 4_000_000), fee 5/10000, 100_000 coin in:
\* 363_471 pc out
C10_SwapExample ==
  /\ SwapOk
  /\ last.args.dir = 0
  /\ last.args.a = U(100000)
  /\ last.pre.tok.coin_vault = U(1000000)
  /\ last.pre.tok.pc_vault = U(4000000)
  /\ last.pre.pool.fees.swap_fee_numerator = U(5)
  /\ last.pre.pool.fees.swap_fee_denominator = U(10000)
  /\ last.out.pc = U(363471)
  /\ tok.coin_vault = U(1100000)
  /\ tok.pc_vault = U(4000000 - 363471)

\* what swap returns on the present accounts for a caller passing the right
\* account keys
SwapResult(x, mo, d) == swap(pool, tok, mints, SwapKeys(d), x, mo, d)

\* the output the formula gives a swap of x on the present reserves
PricedOut(x, d) ==
  OutOf(NetOf(x, pool.fees), InVault(tok, d), OutVault(tok, d))

\* reserves (1_000_000, 4_000_000) under a pool as initialize_pool leaves it
ExampleLedger ==
  [ coin_vault |-> U(1000000), pc_vault |-> U(4000000),
    lp_supply |-> U(2000000), user_coin |-> StepUserBalance,
    user_pc |-> StepUserBalance, user_lp |-> U(2000000) ]

ExampleSwapKeys ==
  [ input_token_program |-> SPL_TOKEN_PROGRAM_ID,
    output_token_program |-> SPL_TOKEN_PROGRAM_ID,
    coin_hook |-> NONE, pc_hook |-> NONE ]

\* C11: a swap whose computed amount_out is below minimum_amount_out returns
\* SlippageExceeded with no transfer dispatched and nothing written; after
\* SlippageExceeded the reserves, the balances and the nonce are as before;
\* a swap that succeeded paid out at least its floor; 100_000 coin against
\* (1_000_000, 4_000_000) with floor 400_000 is rejected.
C11_SlippageRejectedBeforeTransfers ==
  /\ pool.created =>
       \A x \in Amounts \ { U(0) }, mo \in MinOuts, d \in {0, 1} :
         ( /\ Lt(U(0), Add(InVault(tok, d), NetOf(x, pool.fees)))
           /\ Lt(PricedOut(x, d), mo) )
         => SwapResult(x, mo, d)
              = Ret("SlippageExceeded", pool, tok, NoOut, << >>)
  /\ last.res = "SlippageExceeded" =>
       (last.op = "swap" /\ pool = last.pre.pool /\ tok = last.pre.tok)
  /\ SwapOk => Le(last.args.b, AmountOut)
  /\ swap(InitializedPool, ExampleLedger, ClassicMints, ExampleSwapKeys,
          U(100000), U(400000), 0)
       = Ret("SlippageExceeded", InitializedPool, ExampleLedger, NoOut, << >>)

\* C11 witness: a swap on a funded pool was rejected for slippage
C11_SwapRejectedForSlippage ==
  /\ last.op = "swap"
  /\ last.res = "SlippageExceeded"
  /\ Lt(U(0), tok.coin_vault)
  /\ Lt(U(0), tok.pc_vault)
  /\ \E x \in Amounts \ { U(0) }, d \in {0, 1} :
       SwapResult(x, U(1), d).res = "SlippageExceeded"

\* floor(R * l / S)
WithdrawShareOf(r, l, s) == Div(Mul(r, l), s)

\* what withdraw returns on the present accounts for a caller passing the
\* right account keys
WithdrawResult(l) ==
  withdraw(pool, tok, mints, GoodKeys @@ [lp_amount |-> l])

\* C12: a successful withdraw of l shares out of supply S pays out exactly
\* floor(R_c * l / S) coin and floor(R_p * l / S) pc, both positive, out of
\* the vaults to the user, and burns l shares; a withdraw of shares the user
\* holds for which either amount would be zero returns
\* InsufficientWithdrawal with no burn and no transfer dispatched.
C12_WithdrawPaysFloorShares ==
  /\ WithdrawOk =>
       /\ last.out.coin = WithdrawShareOf(last.pre.tok.coin_vault, last.args.a,
                                          last.pre.tok.lp_supply)
       /\ last.out.pc = WithdrawShareOf(last.pre.tok.pc_vault, last.args.a,
                                        last.pre.tok.lp_supply)
       /\ Lt(U(0), last.out.coin)
       /\ Lt(U(0), last.out.pc)
       /\ Add(tok.coin_vault, last.out.coin) = last.pre.tok.coin_vault
       /\ Add(tok.pc_vault, last.out.pc) = last.pre.tok.pc_vault
       /\ tok.user_coin = Add(last.pre.tok.user_coin, last.out.coin)
       /\ tok.user_pc = Add(last.pre.tok.user_pc, last.out.pc)
       /\ Add(tok.lp_supply, last.args.a) = last.pre.tok.lp_supply
       /\ Add(tok.user_lp, last.args.a) = last.pre.tok.user_lp
  /\ \A l \in StepAmounts \ { U(0) } :
       ( /\ Le(l, tok.user_lp)
         /\ Lt(U(0), tok.lp_supply)
         /\ \/ WithdrawShareOf(tok.coin_vault, l, tok.lp_supply) = U(0)
            \/ WithdrawShareOf(tok.pc_vault, l, tok.lp_supply) = U(0) )
       => WithdrawResult(l)
            = Ret("InsufficientWithdrawal", pool, tok, NoOut, << >>)
  /\ last.res = "InsufficientWithdrawal" =>
       (last.op = "withdraw" /\ pool = last.pre.pool /\ tok = last.pre.tok)

\* C12 witness: a withdrawal was paid an amount rounded down
C12_WithdrawRoundedDown ==
  /\ WithdrawOk
  /\ Lt(U(0), last.out.coin)
  /\ Mul(last.out.coin, last.pre.tok.lp_supply)
       # Mul(last.pre.tok.coin_vault, last.args.a)

\* a successful deposit immediately followed by a successful withdraw of
\* exactly the shares that deposit minted: `last` is the deposit, last' the
\* withdraw
DepositThenWithdrawMinted ==
  /\ last.op = "deposit"
  /\ last.res = "Ok"
  /\ last'.op = "withdraw"
  /\ last'.res = "Ok"
  /\ last'.args.a = last.out.lp

\* C13: a successful deposit of (amount_coin, amount_pc) immediately followed
\* by a withdraw of exactly the shares it minted returns at most amount_coin
\* and at most amount_pc.
C13_RoundTripReturnsNoMore ==
  [][ DepositThenWithdrawMinted =>
        ( /\ Le(last'.out.coin, last.args.a)
          /\ Le(last'.out.pc, last.args.b) ) ]_vars

\* one side of a deposit of `amount` at reserve r and supply s that minted m
\* shares, whose withdrawal returned `out`: nothing is gained; if this side's
\* share floor(amount * s / r) is what was minted, the loss is less than one
\* unit plus the reserve r per share outstanding, (amount - out) * (s + m) <
\* r + (s + m); and nothing is lost if amount * s = m * r exactly.
RoundTripSide(amount, r, s, m, out) ==
  /\ Le(out, amount)
  /\ ShareOf(amount, r, s) = m
       => Lt(Mul(amount, Add(s, m)), Add(Mul(Add(out, U(1)), Add(s, m)), r))
  /\ Mul(amount, s) = Mul(m, r) => out = amount

\* C14 (as the code has it): on a deposit at positive supply followed by the
\* withdraw of exactly the shares minted, each side returns at most what was
\* deposited; the side whose share determined the mint loses less than one
\* unit plus the value of one share, and nothing if the amount was an exact
\* multiple; what the other side delivered beyond its proportion stays in the
\* pool.  A genesis deposit into empty vaults is returned in full.
C14_RoundTripLossBounded ==
  [][ DepositThenWithdrawMinted =>
        /\ Lt(U(0), last.pre.tok.lp_supply) =>
             /\ RoundTripSide(last.args.a, last.pre.tok.coin_vault,
                              last.pre.tok.lp_supply, last.out.lp,
                              last'.out.coin)
             /\ RoundTripSide(last.args.b, last.pre.tok.pc_vault,
                              last.pre.tok.lp_supply, last.out.lp,
                              last'.out.pc)
        /\ ( /\ last.pre.tok.lp_supply = U(0)
             /\ last.pre.tok.coin_vault = U(0)
             /\ last.pre.tok.pc_vault = U(0) ) =>
             /\ last'.out.coin = last.args.a
             /\ last'.out.pc = last.args.b ]_vars

\* C14 witness: a deposit and the withdraw of its shares both succeeded and
\* left the user more than 2 coin short of the balance they began with
C14_RoundTripLostMoreThanRounding ==
  /\ WithdrawOk
  /\ hist.ok_ops = 2
  /\ Lt(Add(tok.user_coin, U(2)), StepUserBalance)

\* C14 as stated: on a deposit followed by the withdraw of exactly the shares
\* minted, the loss on each side is at most 1 unit per operation, 2 units
\* over the two operations.
C14_RoundTripLosesAtMostOneUnit ==
  [][ DepositThenWithdrawMinted =>
        ( /\ Le(last.args.a, Add(last'.out.coin, U(2)))
          /\ Le(last.args.b, Add(last'.out.pc, U(2))) ) ]_vars

(***************************************************************************)
(* The hook gate.  last.args.coin_hook and last.args.pc_hook are the hook  *)
(* program accounts the instruction was called with (NONE: absent).        *)
(***************************************************************************)
\* a mint without a TransferHook extension: classic, or extended without it
PlainMint(mint) == ~HasTransferHook(mint)

\* the instruction was rejected by the gate and changed nothing
RejectedAsInvalidHook ==
  /\ last.res = "InvalidTransferHookProgram"
  /\ pool = last.pre.pool
  /\ tok = last.pre.tok

\* C15: for a classic mint, and for an extended mint without a TransferHook
\* extension, a deposit, withdraw or swap called with a hook program account
\* for that mint fails with InvalidTransferHookProgram and changes nothing;
\* called without one, over two such mints, the instruction is admitted and
\* succeeds.
C15_PlainMintAdmitsOnlyNullHook ==
  last.op \in Operations =>
    /\ (PlainMint(mints.coin) /\ last.args.coin_hook # NONE)
         => RejectedAsInvalidHook
    /\ (PlainMint(mints.pc) /\ last.args.pc_hook # NONE)
         => RejectedAsInvalidHook
    /\ ( /\ PlainMint(mints.coin) /\ last.args.coin_hook = NONE
         /\ PlainMint(mints.pc) /\ last.args.pc_hook = NONE )
         => last.res = "Ok"

\* C15 witness: a withdraw from a pool whose pc mint is an extended mint
\* without the extension, called with a hook program for it, was rejected
C15_HookForPlainMintRejected ==
  /\ last.op = "withdraw"
  /\ mints.coin.owner = SPL_TOKEN_PROGRAM_ID
  /\ mints.pc = Mint(SPL_TOKEN_2022_PROGRAM_ID, NONE, 0)
  /\ last.args.coin_hook = NONE
  /\ last.args.pc_hook = HOOK_PROGRAM
  /\ last.res = "InvalidTransferHookProgram"

\* the hook account `arg` is the program the mint declares, and that program
\* is one of the first num_whitelisted_hooks entries of the pool's whitelist
DeclaredAndWhitelisted(mint, arg) ==
  /\ arg # NONE
  /\ arg = mint.hook
  /\ \E i \in 1..pool.num_whitelisted_hooks :
        pool.whitelisted_transfer_hooks[i] = mint.hook

\* the instruction failed and changed nothing
Denied ==
  /\ last.res # "Ok"
  /\ pool = last.pre.pool
  /\ tok = last.pre.tok

\* C16: a deposit, withdraw or swap over a mint whose TransferHook extension
\* declares a program H succeeds only if the hook account passed for that
\* mint is present, is H, and H is among the first num_whitelisted_hooks
\* entries of the whitelist; with the account absent, another program, H not
\* in the whitelist or H only at an index from num_whitelisted_hooks on, the
\* instruction fails and changes nothing.
C16_HookedMintNeedsWhitelistedHook ==
  last.op \in Operations =>
    /\ ( /\ HasTransferHook(mints.coin)
         /\ ~DeclaredAndWhitelisted(mints.coin, last.args.coin_hook) ) => Denied
    /\ ( /\ HasTransferHook(mints.pc)
         /\ ~DeclaredAndWhitelisted(mints.pc, last.args.pc_hook) ) => Denied
    /\ last.res = "Ok" =>
         /\ HasTransferHook(mints.coin)
              => DeclaredAndWhitelisted(mints.coin, last.args.coin_hook)
         /\ HasTransferHook(mints.pc)
              => DeclaredAndWhitelisted(mints.pc, last.args.pc_hook)

\* C16 witness: a swap over a coin mint declaring HOOK_PROGRAM, called with
\* HOOK_PROGRAM, went through on a pool whose whitelist holds it second of two
C16_WhitelistedHookAdmitted ==
  /\ last.op = "swap"
  /\ last.res = "Ok"
  /\ HasTransferHook(mints.coin)
  /\ last.args.coin_hook = HOOK_PROGRAM
  /\ pool.num_whitelisted_hooks = 2
  /\ pool.whitelisted_transfer_hooks[2] = HOOK_PROGRAM

\* the hook account passed for a mint declaring a hook is absent or is the
\* program the mint declares
NullOrDeclared(mint, arg) ==
  HasTransferHook(mint) /\ (arg = NONE \/ arg = mint.hook)

\* C17: on a pool whose whitelist is empty, a deposit, withdraw or swap over
\* a mint that declares a hook program H fails with
\* InvalidTransferHookProgram, when it is called with H as the hook account
\* and when it is called without a hook account.
C17_EmptyWhitelistRejectsAsInvalidHook ==
  (last.op \in Operations /\ pool.num_whitelisted_hooks = 0) =>
    /\ NullOrDeclared(mints.coin, last.args.coin_hook)
         => last.res = "InvalidTransferHookProgram"
    /\ NullOrDeclared(mints.pc, last.args.pc_hook)
         => last.res = "InvalidTransferHookProgram"

(***************************************************************************)
(* initialize_pool.  last.args.coin_token_program and                      *)
(* last.args.pc_token_program are the token program accounts it was called *)
(* with.                                                                   *)
(***************************************************************************)
\* the two token programs initialize_pool recognizes
RecognizedPrograms == { SPL_TOKEN_PROGRAM_ID, SPL_TOKEN_2022_PROGRAM_ID }

\* initialize_pool just ran on accounts that Anchor loaded: no pool existed
\* for the pair, and both mints belong to the classic token program
InitializeRan ==
  /\ last.op = "initialize_pool"
  /\ ~last.pre.pool.created
  /\ mints.coin.owner = SPL_TOKEN_PROGRAM_ID
  /\ mints.pc.owner = SPL_TOKEN_PROGRAM_ID

\* C18: initialize_pool called with a coin_token_program or a
\* pc_token_program that is neither the classic nor the extended token
\* program fails with InvalidTokenProgram and leaves no pool behind; called
\* with two recognized programs it does not fail with InvalidTokenProgram.
C18_UnrecognizedProgramRejected ==
  InitializeRan =>
    /\ ( \/ last.args.coin_token_program \notin RecognizedPrograms
         \/ last.args.pc_token_program \notin RecognizedPrograms )
         => /\ last.res = "InvalidTokenProgram"
            /\ pool = DefaultPool
            /\ tok = last.pre.tok
    /\ ( /\ last.args.coin_token_program \in RecognizedPrograms
         /\ last.args.pc_token_program \in RecognizedPrograms )
         => last.res # "InvalidTokenProgram"

\* C18 witness: initialize_pool called with the classic program for the coin
\* and an unrecognized program for the pc failed with InvalidTokenProgram
C18_InitRejectedForPcProgram ==
  /\ InitializeRan
  /\ last.args.coin_token_program = SPL_TOKEN_PROGRAM_ID
  /\ last.args.pc_token_program = OTHER_ID
  /\ last.res = "InvalidTokenProgram"
  /\ ~pool.created

\* C19: right after a successful initialize_pool the pool is Active
\* (status 1), its nonce is 0, its swap fee is 5/10000 and its trade fee
\* 30/10000, its whitelist is empty with num_whitelisted_hooks = 0, it
\* records the mints, vaults, LP mint and token programs it was called with,
\* and its initialized flag is set.
C19_PoolStateAfterInit ==
  (last.op = "initialize_pool" /\ last.res = "Ok") =>
    /\ pool.status = 1
    /\ pool.nonce = 0
    /\ pool.fees.swap_fee_numerator = U(5)
    /\ pool.fees.swap_fee_denominator = U(10000)
    /\ pool.fees.trade_fee_numerator = U(30)
    /\ pool.fees.trade_fee_denominator = U(10000)
    /\ pool.num_whitelisted_hooks = 0
    /\ \A i \in 1..MAX_WHITELISTED_HOOKS :
         pool.whitelisted_transfer_hooks[i] = DEFAULT_PUBKEY
    /\ pool.coin_vault_mint = "coin_mint"
    /\ pool.pc_vault_mint = "pc_mint"
    /\ pool.coin_vault = "coin_vault"
    /\ pool.pc_vault = "pc_vault"
    /\ pool.lp_mint = "lp_mint"
    /\ pool.coin_token_program = last.args.coin_token_program
    /\ pool.pc_token_program = last.args.pc_token_program
    /\ pool.initialized

\* C20: once a pool exists for the pair of mints it exists forever, and an
\* initialize_pool on that pair fails and leaves the pool and the token
\* accounts as they were; so initialize_pool succeeds at most once.
C20_InitOnceAndForAll ==
  [][pool.created =>
       /\ pool'.created
       /\ last'.op = "initialize_pool"
            => (last'.res = "AccountAlreadyInUse" /\ pool' = pool /\ tok' = tok)]_vars

\* C20 witness: an initialize_pool on a pool that had taken deposits and
\* swaps was refused and the pool is as it was
C20_SecondInitRefused ==
  /\ last.op = "initialize_pool"
  /\ last.res = "AccountAlreadyInUse"
  /\ last.pre.pool.created
  /\ pool.nonce # hist.nonce0
  /\ Lt(U(0), tok.lp_supply)
  /\ pool = last.pre.pool

(***************************************************************************)
(* The accounts an instruction is called with.                             *)
(***************************************************************************)
\* the outcome r is a rejection made before any CPI was dispatched
RejectedBeforeTransfers(r) ==
  /\ r.res # "Ok"
  /\ r.log = << >>
  /\ r.pool = pool
  /\ r.tok = tok

\* the errors with which an account that disagrees with the pool is refused
IdentityErrors ==
  { "InvalidCoinTokenProgram", "InvalidPcTokenProgram", "InvalidCoinVault",
    "InvalidPcVault", "InvalidLpMint", "InvalidCoinMint", "InvalidPcMint",
    "InvalidTokenProgram", "ConstraintAddress", "ConstraintRaw" }

\* C21: on an existing pool, a deposit or a withdraw called with a coin
\* vault, pc vault, coin mint, pc mint, LP mint, coin token program or pc
\* token program other than the one the pool stores, and a swap called with
\* another coin vault, pc vault, coin mint or pc mint, or with an input or
\* output token program other than the stored one its direction selects, is
\* rejected before any token CPI is dispatched and changes nothing.
C21_ForeignAccountRejectedBeforeTransfers ==
  /\ pool.created =>
       /\ \A f \in KeyFields, x \in Amounts \ {U(0)}, y \in Amounts \ {U(0)} :
            \A r \in deposit_instruction(Deviate(GoodKeys, f)
                        @@ [amount_coin |-> x, amount_pc |-> y]) :
              RejectedBeforeTransfers(r) /\ r.res \in IdentityErrors
       /\ \A f \in KeyFields, x \in Amounts :
            RejectedBeforeTransfers(
              withdraw_instruction(Deviate(GoodKeys, f) @@ [lp_amount |-> x]))
       /\ \A f \in SwapKeyFields, x \in Amounts, d \in {0, 1} :
            RejectedBeforeTransfers(
              swap_instruction(Deviate(SwapKeys(d), f), x, U(0), d))
  /\ (last.op \in Operations /\ last.res \in IdentityErrors) =>
       /\ pool = last.pre.pool
       /\ tok = last.pre.tok

\* C21 witness: a withdraw of a share the user holds, called with an account
\* that is not the one the pool stores, was refused
C21_WithdrawWithForeignAccountRefused ==
  /\ last.op = "withdraw"
  /\ last.res = "ConstraintAddress"
  /\ Le(U(1), tok.user_lp)
  /\ Lt(U(0), tok.coin_vault)
  /\ Lt(U(0), tok.pc_vault)

(***************************************************************************)
(* The arguments an instruction is called with.                            *)
(***************************************************************************)
\* the outcome: the error e, nothing dispatched, nothing changed
Refused(e) == Ret(e, pool, tok, NoOut, << >>)

\* what deposit, withdraw and swap return in this state, called with the
\* accounts of the pool
DepositResults(x, y) ==
  deposit_instruction(GoodKeys @@ [amount_coin |-> x, amount_pc |-> y])
WithdrawOutcome(l) == withdraw_instruction(GoodKeys @@ [lp_amount |-> l])
SwapOutcome(x, mo, d) == swap_instruction(SwapKeys(d), x, mo, d)

\* the pool exists and the accounts of a correct caller pass the hook gate
Callable == pool.created /\ hook_accounts(GoodKeys)

\* C22 (as amended): called with the accounts of the pool, deposit(0, 0)
\* fails with InvalidDepositAmount; withdraw(0) fails with InvalidAmount;
\* withdraw of more than the caller's share balance fails with
\* InsufficientBalance, also when the share supply is 0; swap with a
\* direction other than 0 and 1 fails with InvalidSwapDirection; swap with
\* amount_in = 0 and direction 0 or 1 fails with InvalidInputAmount; each
\* without any effect.  No withdraw fails with EmptyPool: a caller's balance
\* never exceeds the supply, so at supply 0 every withdraw fails with
\* InvalidAmount or InsufficientBalance.
C22_ArgumentShapeErrors ==
  /\ Callable =>
       /\ DepositResults(U(0), U(0)) = { Refused("InvalidDepositAmount") }
       /\ WithdrawOutcome(U(0)) = Refused("InvalidAmount")
       /\ \A l \in Amounts \ {U(0)} :
            Lt(tok.user_lp, l) => WithdrawOutcome(l) = Refused("InsufficientBalance")
       /\ \A x \in Amounts, mo \in MinOuts :
            SwapOutcome(x, mo, 2) = Refused("InvalidSwapDirection")
       /\ \A mo \in MinOuts, d \in {0, 1} :
            SwapOutcome(U(0), mo, d) = Refused("InvalidInputAmount")
  /\ last.res # "EmptyPool"
  /\ Le(tok.user_lp, tok.lp_supply)
  /\ last.res \in { "InvalidDepositAmount", "InvalidAmount", "InsufficientBalance",
                     "InvalidInputAmount", "InvalidSwapDirection" } =>
       /\ pool = last.pre.pool
       /\ tok = last.pre.tok

\* C22 witness: a withdraw from a pool that had taken a swap but whose share
\* supply is 0 failed with InsufficientBalance
C22_WithdrawFromEmptyPoolRefused ==
  /\ last.op = "withdraw"
  /\ last.res = "InsufficientBalance"
  /\ pool.created
  /\ tok.lp_supply = U(0)
  /\ Lt(U(0), tok.coin_vault)

\* C22 (as stated): the same, and a withdraw of a positive amount from a
\* pool whose share supply is 0 fails with EmptyPool.
C22_WithdrawAtNoSupplyFailsEmptyPool ==
  Callable =>
    /\ DepositResults(U(0), U(0)) = { Refused("InvalidDepositAmount") }
    /\ WithdrawOutcome(U(0)) = Refused("InvalidAmount")
    /\ \A l \in Amounts \ {U(0)} :
         tok.lp_supply = U(0) => WithdrawOutcome(l) = Refused("EmptyPool")
    /\ \A mo \in MinOuts, d \in {0, 1} :
         SwapOutcome(U(0), mo, d) = Refused("InvalidInputAmount")

(***************************************************************************)
(* The arithmetic.  Under SpecMath last.args.a (and last.args.b) are the   *)
(* amounts a function was applied to and last.out.lp is what it returned.  *)
(***************************************************************************)
\* r is the floor of the square root of n
IsFloorSqrt(r, n) ==
  /\ Le(Mul(r, r), n)
  /\ Lt(n, Mul(Add(r, U(1)), Add(r, U(1))))

\* C23: integer_sqrt returns a value for every u64 n, the top of the range
\* included, and the value r it returns is the floor of the square root of
\* n: r * r <= n < (r + 1) * (r + 1); integer_sqrt(0) = 0.
C23_IntegerSqrtIsFloorSqrt ==
  last.op = "integer_sqrt" =>
    /\ last.res = "Ok"
    /\ IsFloorSqrt(last.out.lp, last.args.a)
    /\ last.args.a = U(0) => last.out.lp = U(0)

\* v is a value of u64
FitsU64(v) == Le(v, U64_MAX)

\* the vault a swap pays into and the vault it pays from, by direction
MathVaultIn  == IF last.args.dir = 0 THEN tok.coin_vault ELSE tok.pc_vault
MathVaultOut == IF last.args.dir = 0 THEN tok.pc_vault ELSE tok.coin_vault

\* the in-vault's balance after the net input of the swap priced last
MathNewBalance == Add(MathVaultIn, NetOf(last.args.a, pool.fees))

\* C24: the products of the share formula, of the genesis formula, of the
\* swap pricing and of the withdraw formula are formed in 128 bits: on u64
\* inputs none of these fails with MathOverflow because a product reached
\* 2^64.  calculate_share and the withdraw share fail with MathOverflow only
\* when the divisor is zero or the quotient exceeds u64; the genesis formula
\* on amounts that need no scaling never does; the swap pricing does only
\* when the new balance of the in-vault exceeds u64 or is zero, or the
\* quotient exceeds u64.
C24_ProductsFormedIn128Bits ==
  last.res = "MathOverflow" =>
    /\ last.op = "calculate_share" =>
         \/ tok.coin_vault = U(0)
         \/ ~FitsU64(Div(Mul(last.args.a, tok.lp_supply), tok.coin_vault))
    /\ last.op = "withdraw_share" =>
         \/ tok.lp_supply = U(0)
         \/ ~FitsU64(Div(Mul(tok.coin_vault, last.args.a), tok.lp_supply))
    /\ last.op = "genesis_lp_tokens" =>
         \/ pool.coin_decimals # pool.sys_decimal_value
         \/ pool.pc_decimals # pool.sys_decimal_value
    /\ last.op \in { "swap_coin_to_pc", "swap_pc_to_coin" } =>
         \/ ~FitsU64(MathNewBalance)
         \/ MathNewBalance = U(0)
         \/ ~FitsU64(Div(Mul(NetOf(last.args.a, pool.fees), MathVaultOut),
                         MathNewBalance))

\* 10^diff is a value of u64: 10^19 < 2^64 < 10^20
PowerOfTenFits(diff) == Lt(diff, U(20))

\* amount * 10^diff for a power of ten that fits u64
ScaledUp(amount, diff) == Mul(amount, Pow(U(10), ToNat(diff)))

\* floor(amount / 10^diff) of a u64 amount: 0 once 10^diff exceeds u64
ScaledDown(amount, diff) ==
  IF PowerOfTenFits(diff) THEN Div(amount, Pow(U(10), ToNat(diff))) ELSE U(0)

\* what normalize(amount, from_dec, to_dec) returned (error res, value v) is
\* the exact scaled amount or the failure MathOverflow
NormalizedExactly(amount, from_dec, to_dec, res, v) ==
  IF Le(from_dec, to_dec)
  THEN IF /\ PowerOfTenFits(Sub(to_dec, from_dec))
          /\ FitsU64(ScaledUp(amount, Sub(to_dec, from_dec)))
       THEN res = "Ok" /\ v = ScaledUp(amount, Sub(to_dec, from_dec))
       ELSE res = "MathOverflow"
  ELSE \/ res = "MathOverflow"
       \/ res = "Ok" /\ v = ScaledDown(amount, Sub(from_dec, to_dec))

\* C25: normalize_amount(amount, from_dec, to_dec) returns the amount
\* scaled by the power of ten exactly, or fails with MathOverflow: scaling up
\* it returns amount * 10^(to_dec - from_dec) when the power and the product
\* fit u64 and MathOverflow when they do not; scaling down it returns
\* floor(amount / 10^(from_dec - to_dec)) or MathOverflow.  It never returns
\* another value and never ends in another way.
C25_NormalizeExactOrMathOverflow ==
  last.op = "normalize_amount" =>
    NormalizedExactly(last.args.a, pool.coin_decimals, pool.sys_decimal_value,
                      last.res, last.out.lp)

(***************************************************************************)
(* The share supply the pool tracks.                                       *)
(***************************************************************************)
\* C26: after every successful instruction pool.lp_amount equals the supply
\* of the LP mint: a deposit adds the shares it minted to it and a withdraw
\* takes the shares it burned from it.
C26_TrackedSupplyIsLiveSupply ==
  last.res = "Ok" =>
    /\ pool.lp_amount = tok.lp_supply
    /\ last.op = "deposit" =>
         pool.lp_amount = Add(last.pre.pool.lp_amount, last.out.lp)
    /\ last.op = "withdraw" =>
         last.pre.pool.lp_amount = Add(pool.lp_amount, last.args.a)

(***************************************************************************)
(* Withdrawing everything.                                                 *)
(***************************************************************************)
\* the last instruction was a successful withdraw of the whole share supply
WithdrewAll == WithdrawOk /\ last.args.a = last.pre.tok.lp_supply

\* the pool holds nothing and no share is outstanding
Drained(t) ==
  t.coin_vault = U(0) /\ t.pc_vault = U(0) /\ t.lp_supply = U(0)

\* C27: a successful withdraw of the whole share supply pays out the whole
\* of both reserves and leaves both vaults and the supply at 0; a successful
\* deposit right after it mints the genesis shares, the floor of the square
\* root of the product of its two amounts.
C27_FullWithdrawDrainsPool ==
  /\ [](WithdrewAll =>
          /\ last.out.coin = last.pre.tok.coin_vault
          /\ last.out.pc = last.pre.tok.pc_vault
          /\ Drained(tok))
  /\ [][(WithdrewAll /\ last'.op = "deposit" /\ last'.res = "Ok") =>
          IsFloorSqrt(last'.out.lp, Mul(last'.args.a, last'.args.b))]_vars

\* C27 witness: the whole supply, more than one share, was withdrawn from a
\* pool of unequal reserves, and the pool is drained
C27_PoolDrained ==
  /\ WithdrewAll
  /\ last.pre.tok.coin_vault # last.pre.tok.pc_vault
  /\ Lt(U(1), last.args.a)
  /\ Drained(tok)

(***************************************************************************)
(* What a deposit keeps.                                                   *)
(***************************************************************************)
\* the deposit of (500_000, 1_000_000) on the example reserves
ExampleSkewedDeposit ==
  deposit(pool, ExampleLedger, mints,
          GoodKeys @@ [amount_coin |-> U(500000), amount_pc |-> U(1000000)])

\* C28: a successful deposit(amount_coin, amount_pc) takes the whole of both
\* amounts from the user: the coin vault grows by exactly amount_coin, the pc
\* vault by exactly amount_pc, and the supply and the user's shares by
\* exactly the shares minted, the smaller of the two proportional shares;
\* nothing of the side in excess is paid back.  On reserves
\* (1_000_000, 4_000_000) with 2_000_000 shares, deposit(500_000, 1_000_000)
\* mints 500_000 shares and leaves reserves (1_500_000, 5_000_000).
C28_DepositKeepsWholeAmounts ==
  /\ DepositOk =>
       /\ tok.coin_vault = Add(last.pre.tok.coin_vault, last.args.a)
       /\ tok.pc_vault = Add(last.pre.tok.pc_vault, last.args.b)
       /\ last.pre.tok.user_coin = Add(tok.user_coin, last.args.a)
       /\ last.pre.tok.user_pc = Add(tok.user_pc, last.args.b)
       /\ tok.lp_supply = Add(last.pre.tok.lp_supply, last.out.lp)
       /\ tok.user_lp = Add(last.pre.tok.user_lp, last.out.lp)
       /\ Lt(U(0), last.pre.tok.lp_supply) =>
            last.out.lp = Min(ShareCoin, SharePc)
  /\ \A r \in ExampleSkewedDeposit :
       /\ r.res = "Ok"
       /\ r.out.lp = U(500000)
       /\ r.tok.coin_vault = U(1500000)
       /\ r.tok.pc_vault = U(5000000)
       /\ r.tok.lp_supply = U(2500000)

\* C28 witness: deposit(1_000_000, 1_000_000) on reserves
\* (1_000_000, 4_000_000) with 2_000_000 shares minted the pc share, 500_000,
\* and the pool kept the whole 1_000_000 coin, worth 2_000_000 shares
C28_SkewedDepositKept ==
  /\ DepositOk
  /\ last.pre.tok = ExampleLedger
  /\ last.args.a = U(1000000)
  /\ last.args.b = U(1000000)
  /\ ShareCoin = U(2000000)
  /\ last.out.lp = U(500000)
  /\ tok.coin_vault = U(2000000)
  /\ tok.pc_vault = U(5000000)

(***************************************************************************)
(* The order of the steps of an instruction.  last.log holds the CPIs the  *)
(* instruction dispatched, in the order it dispatched them.                *)
(***************************************************************************)
\* the places in the log of the last instruction holding a CPI of kind c
Dispatched(c) == { i \in 1..Len(last.log) : last.log[i].cpi = c }

\* C29: a withdraw burns lp_amount shares of the user before it dispatches
\* either egress transfer: every transfer out of a vault comes after the
\* burn of lp_amount, so the supply is already reduced when it is paid.
C29_BurnBeforeEgress ==
  WithdrawOk =>
    /\ Dispatched("burn") = {1}
    /\ last.log[1].from = "user_lp"
    /\ last.log[1].amount = last.args.a
    /\ Dispatched("transfer") = {2, 3}
    /\ \A i \in Dispatched("transfer") :
         /\ last.log[i].from \in { "coin_vault", "pc_vault" }
         /\ \E j \in Dispatched("burn") : j < i

\* C29 witness: a withdraw burned the shares, then paid the coin out of the
\* coin vault, then the pc out of the pc vault
C29_WithdrawBurnedThenPaid ==
  /\ WithdrawOk
  /\ last.log[1].cpi = "burn"
  /\ last.log[2] = Cpi("transfer", "coin_vault", "user_coin", last.out.coin,
                       last.log[2].seeds)
  /\ last.log[3] = Cpi("transfer", "pc_vault", "user_pc", last.out.pc,
                       last.log[3].seeds)
  /\ tok.lp_supply = Sub(last.pre.tok.lp_supply, last.args.a)

\* the outcome r of an instruction left before any CPI was dispatched
NothingDispatched(r) == r.log = << >> /\ r.tok = tok

\* C30: an instruction validates, reads the reserves, computes, and only
\* then dispatches its transfers: a deposit that mints no share fails with
\* InsufficientLiquidityMinted before any ingress transfer is dispatched, and
\* a swap refused for its price fails before any transfer too.
C30_ComputedBeforeTransfers ==
  Callable =>
    /\ \A x \in Amounts, y \in Amounts : \A r \in DepositResults(x, y) :
         r.res = "InsufficientLiquidityMinted" => NothingDispatched(r)
    /\ \A x \in Amounts, mo \in MinOuts, d \in {0, 1} :
         SwapOutcome(x, mo, d).res \in { "SlippageExceeded",
                                        "InsufficientLiquidity" }
           => NothingDispatched(SwapOutcome(x, mo, d))

(***************************************************************************)
(* The liquidity check of the swap pricing functions, over the u64 range   *)
(* (SpecMath: last.args.a is amount_in, last.args.dir the direction,       *)
(* last.out.lp the amount_out returned).                                   *)
(***************************************************************************)
PricingApplied == last.op \in { "swap_coin_to_pc", "swap_pc_to_coin" }

\* C31: whenever the arithmetic of a swap pricing function does not fail, the
\* amount_out it computes is at most the out-side reserve, so the function
\* never returns InsufficientLiquidity.
C31_AmountOutWithinReserve ==
  PricingApplied =>
    /\ last.res # "InsufficientLiquidity"
    /\ last.res = "Ok" =>
         Le(last.out.lp, OutVault(last.pre.tok, last.args.dir))

\* C31 witness: a coin -> pc swap of more than the whole coin reserve was
\* priced at a positive amount within the pc reserve
C31_LargeSwapPricedWithinReserve ==
  /\ last.op = "swap_coin_to_pc"
  /\ last.res = "Ok"
  /\ Lt(last.pre.tok.coin_vault, last.args.a)
  /\ Lt(U(0), last.out.lp)
  /\ Le(last.out.lp, last.pre.tok.pc_vault)

\* C32: in every reachable state, a successful swap out of a positive
\* out-side reserve pays out less than that reserve, so the reserve is still
\* positive after it.
C32_SwapLeavesOutVaultPositive ==
  (SwapOk /\ Lt(U(0), OutVault(last.pre.tok, last.args.dir))) =>
    /\ Lt(AmountOut, OutVault(last.pre.tok, last.args.dir))
    /\ Lt(U(0), OutVault(tok, last.args.dir))

(***************************************************************************)
(* sys_decimal_value after initialize_pool (SpecFresh: both mints have 6   *)
(* decimals).                                                              *)
(***************************************************************************)
\* the genesis deposit (1_000_000, 4_000_000) into the pool as initialize_pool
\* left it succeeded
GenesisExampleRan ==
  /\ DepositOk
  /\ last.pre.tok.lp_supply = U(0)
  /\ last.pre.tok.coin_vault = U(0)
  /\ last.pre.tok.pc_vault = U(0)
  /\ last.args.a = U(1000000)
  /\ last.args.b = U(4000000)

\* C33: a successful initialize_pool over two 6-decimal mints leaves
\* sys_decimal_value at the common decimal exponent 6, not at its zero
\* default, and the genesis deposit (1_000_000, 4_000_000) into the fresh
\* pool normalizes without loss and mints 2_000_000 shares.
C33_InitSeedsSysDecimalValue ==
  /\ (last.op = "initialize_pool" /\ last.res = "Ok") =>
       /\ pool.sys_decimal_value # U(0)
       /\ pool.sys_decimal_value = U(6)
  /\ GenesisExampleRan => last.out.lp = U(2000000)

(* C34: existing share holders are never diluted. Across every successful  *)
(* deposit, withdraw or swap that starts and ends with a positive share    *)
(* supply S, the backing per share does not decrease:                      *)
(* R_c' * R_p' * S^2 >= R_c * R_p * S'^2, and for deposit and withdraw     *)
(* each reserve per share separately does not decrease.                    *)
SharesBefore == last.pre.tok.lp_supply

SharesLive == Lt(U(0), last.pre.tok.lp_supply) /\ Lt(U(0), tok.lp_supply)

BackingKept(before, after) == Le(Mul(before, tok.lp_supply), Mul(after, SharesBefore))

C34_NoDilution ==
    ((DepositOk \/ WithdrawOk \/ SwapOk) /\ SharesLive) =>
        /\ Le(Mul(Product(last.pre.tok), Mul(tok.lp_supply, tok.lp_supply)), Mul(Product(tok), Mul(SharesBefore, SharesBefore)))
        /\ (DepositOk \/ WithdrawOk) =>
               /\ BackingKept(last.pre.tok.coin_vault, tok.coin_vault)
               /\ BackingKept(last.pre.tok.pc_vault, tok.pc_vault)
        /\ SwapOk => (tok.lp_supply = SharesBefore /\ Le(Product(last.pre.tok), Product(tok)))

C34_UnevenDepositKeepsBacking == DepositOk /\ SharesLive /\ Lt(Mul(last.pre.tok.coin_vault, tok.lp_supply), Mul(tok.coin_vault, SharesBefore)) /\ Lt(SharesBefore, tok.lp_supply)

C34_PartialWithdrawKeepsBacking == WithdrawOk /\ SharesLive /\ Lt(tok.lp_supply, SharesBefore) /\ Lt(Mul(last.pre.tok.pc_vault, tok.lp_supply), Mul(tok.pc_vault, SharesBefore))

\* the CPIs of the last instruction that were signed with seeds of the program
Signed == { i \in 1..Len(last.log) : last.log[i].seeds # << >> }

\* a list of seeds without its last element, the bump
SeedTuple(seeds) == SubSeq(seeds, 1, Len(seeds) - 1)

(* C35: the pool identity is derived consistently. The seed tuple under    *)
(* which init creates the pool (and makes it owner of the vaults and       *)
(* authority of the LP mint) is the seed tuple with which a successful     *)
(* swap or withdraw signs its vault egress and a successful deposit signs  *)
(* the minting of LP shares, so that the signature is valid for the pool.  *)
C35_PoolSeedsConsistent ==
    (last.op \in Operations /\ last.res = "Ok") =>
        \A i \in Signed : SeedTuple(last.log[i].seeds) = SeedTuple(InitializePoolSeeds(hist.nonce0))

\* the derivation tag a list of seeds ends with
SeedTag(seeds) == seeds[Len(seeds)]

(* C36: the derivation tag with which the pool re-derives its signing      *)
(* identity is stable. After any sequence of successful deposits,          *)
(* withdrawals and swaps the tag kept in the pool account is the tag       *)
(* recorded at init, and it is the tag with which a successful deposit or  *)
(* withdraw signs as the pool.                                             *)
C36_SigningTagStable ==
    /\ pool.created => pool.nonce = hist.nonce0
    /\ (DepositOk \/ WithdrawOk) =>
           \A i \in Signed : SeedTag(last.log[i].seeds) = hist.nonce0

\* the positive amounts a one-sided deposit is tried with
OneSidedAmounts == (Amounts \cup StepAmounts) \ { U(0) }

\* every outcome in rs is a failure, and the failure e if the user holds x
FailsWith(rs, e, x, held) == \A r \in rs : r.res # "Ok" /\ (Le(x, held) => r.res = e)

C38_SwapReturnsSomething == SwapOk => (Lt(U(0), last.args.a) /\ Lt(U(0), AmountOut))

\* the configuration of a pool: everything but the nonce and the tracked
\* number of shares
Configuration(p) == [p EXCEPT !.nonce = 0, !.lp_amount = U(0)]

\* the configuration initialize_pool gives a pool over the mints of the state
\* (sys_decimal_value is not among the fields it writes)
ConfigurationAtInit ==
    [ created |-> TRUE, status |-> 1, nonce |-> 0,
      coin_decimals |-> U(mints.coin.decimals), pc_decimals |-> U(mints.pc.decimals),
      sys_decimal_value |-> U(0),
      fees |-> [ trade_fee_numerator |-> U(DEFAULT_TRADE_FEE), trade_fee_denominator |-> U(FEE_DENOMINATOR),
                 swap_fee_numerator |-> U(DEFAULT_OWNER_FEE), swap_fee_denominator |-> U(FEE_DENOMINATOR) ],
      initialized |-> TRUE,
      coin_vault |-> "coin_vault", pc_vault |-> "pc_vault",
      coin_vault_mint |-> "coin_mint", pc_vault_mint |-> "pc_mint", lp_mint |-> "lp_mint",
      coin_token_program |-> mints.coin.owner, pc_token_program |-> mints.pc.owner,
      whitelisted_transfer_hooks |-> [i \in 1..MAX_WHITELISTED_HOOKS |-> DEFAULT_PUBKEY],
      num_whitelisted_hooks |-> 0,
      lp_amount |-> U(0) ]

(* C39: deposit, withdraw and swap leave the pool configuration unchanged: *)
(* status, fees, decimals, sys_decimal_value, the vault, mint and LP       *)
(* identifiers, both token programs, the hook whitelist and                *)
(* num_whitelisted_hooks are after the instruction what they were before   *)
(* it, and in every reachable state of a pool what init made them; so      *)
(* swap_fee_numerator < swap_fee_denominator, num_whitelisted_hooks <= 10  *)
(* and the whitelist entries in use are distinct, forever.                 *)
C39_ConfigurationFixedAtInit ==
    /\ last.op \in Operations => Configuration(pool) = Configuration(last.pre.pool)
    /\ pool.created =>
           /\ Configuration(pool) = ConfigurationAtInit
           /\ Lt(pool.fees.swap_fee_numerator, pool.fees.swap_fee_denominator)
           /\ pool.num_whitelisted_hooks <= MAX_WHITELISTED_HOOKS
           /\ \A i \in 1..pool.num_whitelisted_hooks, j \in 1..pool.num_whitelisted_hooks :
                  pool.whitelisted_transfer_hooks[i] = pool.whitelisted_transfer_hooks[j] => i = j

\* C39 witness: after a deposit, a swap and a withdraw went through, with
\* the nonce and the tracked shares moved, the configuration is that of init
C39_ConfigurationKeptAcrossOperations ==
    /\ WithdrawOk
    /\ hist.ok_ops >= 3
    /\ pool.nonce # hist.nonce0
    /\ Lt(U(0), pool.lp_amount)
    /\ Configuration(pool) = ConfigurationAtInit

=============================================================================
